---- MODULE Spec2Model ----
(***************************************************************************)
(* Job Tracker backend (FastAPI + SQLAlchemy): the authentication and      *)
(* authorization flow, the job application and document services, the     *)
(* file store and the per-request database session.  The tables, the      *)
(* password hasher, the token issuer/verifier, the identity-resolving      *)
(* dependencies, the services and the route handlers are modelled from     *)
(* backend/app.                                                            *)
(*                                                                         *)
(* Time is counted in minutes.  An Optional value is a sequence of length  *)
(* at most one: None is << >> and a present value x is <<x>>.              *)
(***************************************************************************)
EXTENDS Integers, Sequences, FiniteSets, TLC

\* config.py: access_token_expire_minutes
AccessTokenExpireMinutes == 30

\* ------------------------------------------------------------------ bounds
\* Highest primary key the users table hands out in a run.
MaxUsers == 2
\* Number of clock advances in a run, and the minutes of one advance.
MaxTicks == 2
\* Register requests that may be in flight at once.
MaxInFlight == 2
\* Highest primary key the job_applications table hands out in a run.
MaxJobs == 2
\* Highest primary key of the documents table, and the number of file names
\* the file store generates, in a run.
MaxDocs == 2
\* Number of requests whose database session is followed in a run.
MaxRequests == 3

\* One advance of the clock, in minutes: two of them outlast a token.
TickMinutes == (2 * AccessTokenExpireMinutes) \div 3

\* ------------------------------------------------------------ input domains
Emails == {"a@x.io", "b@x.io"}
Usernames == {"alice", "bob"}
Passwords == {"secret1", "secret2"}

\* --------------------------------------------------------------- constants
\* config.py: secret_key (a required setting; its value is the deployment's)
SecretKey == "server-secret"
\* A key that is not the server's: what a forger signs with.
OtherKey == "other-key"

None == << >>
Some(x) == <<x>>

VARIABLES
    users,      \* the users table: a set of rows
    nextId,     \* the next primary key of the users table
    now,        \* the clock, in minutes
    held,       \* the token the client holds: None or <<token>>
    minted,     \* history: how the held token was made, None or
                \* <<[data, ttl, at, admin]>>: the claims and ttl given to
                \* create_access_token, the time, the subject's admin flag
    registered, \* history: [id, email, password] of every successful register
    inflight,   \* per request slot, a register between its checks and its insert:
                \* None or <<[user_create, pc]>>
    resp,       \* the last response
    jobs,       \* the job_applications table: a set of rows
    nextJobId,  \* the next primary key of the job_applications table
    documents,  \* the documents table: a set of rows
    nextDocId,  \* the next primary key of the documents table
    files,      \* the upload directory: a set of [path, size]
    dirs,       \* the directories made under the upload directory
    nextFileId, \* the next unique id of a generated file name
    call,       \* the document request between its steps: None or <<record>>
    sessions    \* the database sessions: [next, slot], the number of the
                \* next Session object and, per request slot, the request
                \* and its session

\* The state of the job, document and file stores and of the sessions.
appvars == <<jobs, nextJobId, documents, nextDocId, files, dirs, nextFileId,
             call, sessions>>

\* The state of the users table, the clock and the tokens.
authvars == <<users, nextId, now, held, minted, registered, inflight>>

vars == <<users, nextId, now, held, minted, registered, inflight, resp,
          jobs, nextJobId, documents, nextDocId, files, dirs, nextFileId,
          call, sessions>>

\* ------------------------------------------------------- core/security.py
\* passlib's CryptContext(schemes=["bcrypt"]): a hash is a tagged string that
\* is not the plain text; verify recomputes from the secret and compares.
get_password_hash(password) == [scheme |-> "bcrypt", secret |-> password]

\* pwd_context.verify identifies the scheme of the stored string first and
\* raises UnknownHashError (a ValueError) for a string no configured scheme
\* recognises; verify_password has no try/except and lets it through.
verify_password(plain_password, hashed_password) ==
    IF hashed_password.scheme # "bcrypt"
    THEN [raised |-> "UnknownHashError", value |-> FALSE]
    ELSE [raised |-> "", value |-> hashed_password.secret = plain_password]

\* jwt.encode: the payload and an HMAC over it under the key.
jwt_encode(payload, key) ==
    [wellformed |-> TRUE, payload |-> payload, sig |-> [key |-> key, over |-> payload]]

\* expires_delta is Optional[timedelta]; `if expires_delta:` is false for None
\* and for a zero timedelta.
Truthy(expires_delta) == expires_delta # None /\ expires_delta[1] # 0

create_access_token(data, expires_delta, t) ==
    LET expire == IF Truthy(expires_delta)
                  THEN t + expires_delta[1]
                  ELSE t + AccessTokenExpireMinutes
        to_encode == [data EXCEPT !.exp = expire]
    IN  jwt_encode(to_encode, SecretKey)

\* jwt.decode raises JWTError for a token that does not parse, whose signature
\* does not verify under the key, or whose exp lies before the current time;
\* decode_access_token turns each of them into None.
\* decode that reports an expired token apart from a forged one.
decode_tells_expired(token, t) ==
    IF token.wellformed /\ token.sig.key = SecretKey /\ token.sig.over = token.payload
    THEN IF token.payload.exp < t
         THEN Some([token.payload EXCEPT !.sub = "expired"])
         ELSE Some(token.payload)
    ELSE None

\* decode that reads the claims without verifying the signature.
decode_unverified(token, t) ==
    IF token.wellformed /\ ~(token.payload.exp < t)
    THEN Some(token.payload)
    ELSE None

\* decode that accepts a token only at the time it was issued.
decode_fresh_only(token, t) ==
    IF /\ token.wellformed
       /\ token.sig.key = SecretKey
       /\ token.sig.over = token.payload
       /\ token.payload.exp = t + AccessTokenExpireMinutes
    THEN Some(token.payload)
    ELSE None

decode_access_token(token, t) ==
    IF /\ token.wellformed
       /\ token.sig.key = SecretKey
       /\ token.sig.over = token.payload
       /\ ~(token.payload.exp < t)
    THEN Some(token.payload)
    ELSE None

\* ---------------------------------------------------------- models/user.py
\* Column(String, unique=True) on email and on username: the store refuses a
\* commit that would leave two rows with one email or one username.
\* A table without the unique constraints.
UniqueOk_off(us) == TRUE

UniqueOk(us) ==
    \A u1, u2 \in us :
        (u1.email = u2.email \/ u1.username = u2.username) => u1 = u2

\* User(**fields, hashed_password=...): a column the caller does not pass
\* takes its default, is_active True and is_superuser False.
Field(fields, name, default) ==
    IF name \in DOMAIN fields THEN fields[name] ELSE default

NewUser(id, fields, hashed_password) ==
    [id |-> id, email |-> fields.email, username |-> fields.username,
     hashed_password |-> hashed_password,
     is_active |-> Field(fields, "is_active", TRUE),
     is_superuser |-> Field(fields, "is_superuser", FALSE)]

\* ---------------------------------------------------------- schemas/user.py
\* A schema that lets undeclared fields of the body through.
UserCreate_allow_extra(body) == body

\* UserCreate keeps the declared fields of a request body and ignores the rest.
UserCreate(body) ==
    [email |-> body.email, username |-> body.username, password |-> body.password]

\* ------------------------------------------- repositories/user_repository.py
get_by_id(us, user_id) ==
    IF \E u \in us : u.id = user_id
    THEN Some(CHOOSE u \in us : u.id = user_id)
    ELSE None

get_by_email(us, email) ==
    IF \E u \in us : u.email = email
    THEN Some(CHOOSE u \in us : u.email = email)
    ELSE None

exists_by_email(us, email) == get_by_email(us, email) # None

exists_by_username(us, username) == \E u \in us : u.username = username

\* user_create.model_dump(exclude={'password'})
DumpWithoutPassword(user_create) ==
    [f \in DOMAIN user_create \ {"password"} |-> user_create[f]]

\* create: hash, add, commit, refresh.  A refused commit raises IntegrityError
\* and leaves the table as it was.
create(us, id, user_create) ==
    LET db_user == NewUser(id, DumpWithoutPassword(user_create),
                           get_password_hash(user_create.password))
    IN  IF UniqueOk(us \cup {db_user})
        THEN [raised |-> "", users |-> us \cup {db_user}, user |-> Some(db_user)]
        ELSE [raised |-> "IntegrityError", users |-> us, user |-> None]

\* update: only the fields that were set are written; a set password is
\* stored hashed.  Each field of user_update is None or <<value>>.
update(us, user_id, user_update) ==
    LET found == get_by_id(us, user_id) IN
    IF found = None
    THEN [raised |-> "", users |-> us, user |-> None]
    ELSE LET old == found[1]
             new == [old EXCEPT
                       !.email = IF user_update.email = None THEN @
                                 ELSE user_update.email[1],
                       !.username = IF user_update.username = None THEN @
                                    ELSE user_update.username[1],
                       !.hashed_password =
                           IF user_update.password = None THEN @
                           ELSE get_password_hash(user_update.password[1])]
             after == (us \ {old}) \cup {new}
         IN  IF UniqueOk(after)
             THEN [raised |-> "", users |-> after, user |-> Some(new)]
             ELSE [raised |-> "IntegrityError", users |-> us, user |-> None]

delete(us, user_id) ==
    LET found == get_by_id(us, user_id) IN
    IF found = None
    THEN [deleted |-> FALSE, users |-> us]
    ELSE [deleted |-> TRUE, users |-> us \ {found[1]}]

\* ------------------------------------------------- services/auth_service.py
\* register: two existence checks, then the insert.  A commit the store
\* refuses is not caught: the request ends with the server's 500.
\* register without the username check.
register_nousername(us, id, user_create) ==
    IF exists_by_email(us, user_create.email)
    THEN [code |-> 409, detail |-> "Email already registered",
          users |-> us, user |-> None]
    ELSE LET r == create(us, id, user_create) IN
         IF r.raised # ""
         THEN [code |-> 500, detail |-> r.raised, users |-> us, user |-> None]
         ELSE [code |-> 201, detail |-> "", users |-> r.users, user |-> r.user]

register(us, id, user_create) ==
    IF exists_by_email(us, user_create.email)
    THEN [code |-> 409, detail |-> "Email already registered",
          users |-> us, user |-> None]
    ELSE IF exists_by_username(us, user_create.username)
    THEN [code |-> 409, detail |-> "Username already taken",
          users |-> us, user |-> None]
    ELSE LET r == create(us, id, user_create) IN
         IF r.raised # ""
         THEN [code |-> 500, detail |-> r.raised, users |-> us, user |-> None]
         ELSE [code |-> 201, detail |-> "", users |-> r.users, user |-> r.user]

\* authenticate without the password check.
authenticate_nopw(us, email, password) ==
    LET user == get_by_email(us, email) IN
    IF user = None THEN [raised |-> "", user |-> None]
    ELSE IF ~user[1].is_active THEN [raised |-> "", user |-> None]
    ELSE [raised |-> "", user |-> user]

\* authenticate: the user, or None; an exception of verify_password passes
\* through it.
authenticate(us, email, password) ==
    LET user == get_by_email(us, email) IN
    IF user = None THEN [raised |-> "", user |-> None]
    ELSE IF ~user[1].is_active THEN [raised |-> "", user |-> None]
    ELSE LET v == verify_password(password, user[1].hashed_password) IN
         IF v.raised # "" THEN [raised |-> v.raised, user |-> None]
         ELSE IF ~v.value THEN [raised |-> "", user |-> None]
         ELSE [raised |-> "", user |-> user]

\* The claims login puts in a token; exp is set by create_access_token.
NoExp == 0 - 1

\* login that tells an inactive account from wrong credentials.
login_leaky(us, email, password, t) ==
    LET user == get_by_email(us, email) IN
    IF user # None /\ ~user[1].is_active
    THEN [code |-> 401, detail |-> "Inactive user", token |-> None]
    ELSE IF authenticate(us, email, password).raised # ""
    THEN [code |-> 500, detail |-> authenticate(us, email, password).raised,
          token |-> None]
    ELSE IF authenticate(us, email, password).user = None
    THEN [code |-> 401, detail |-> "Incorrect email or password", token |-> None]
    ELSE [code |-> 200, detail |-> "",
          token |-> Some(create_access_token(
                        [sub |-> user[1].email, user_id |-> user[1].id,
                         email |-> user[1].email, exp |-> NoExp],
                        Some(AccessTokenExpireMinutes), t))]

\* login: an exception that authenticate lets through is not caught here or
\* in the route: the request ends with the server's 500.
login(us, email, password, t) ==
    LET a == authenticate(us, email, password)
        user == a.user
    IN
    IF a.raised # ""
    THEN [code |-> 500, detail |-> a.raised, token |-> None]
    ELSE IF user = None
    THEN [code |-> 401, detail |-> "Incorrect email or password", token |-> None]
    ELSE LET access_token_expires == Some(AccessTokenExpireMinutes)
             access_token ==
                 create_access_token(
                     [sub |-> user[1].email, user_id |-> user[1].id,
                      email |-> user[1].email, exp |-> NoExp],
                     access_token_expires, t)
         IN  [code |-> 200, detail |-> "", token |-> Some(access_token)]

\* get_current_user without the is_active check.
AuthService_get_current_user_noactive(us, token, t) ==
    LET payload == decode_access_token(token, t) IN
    IF payload = None \/ payload[1].sub = ""
    THEN [code |-> 401, detail |-> "Could not validate credentials", user |-> None]
    ELSE LET user == get_by_email(us, payload[1].sub) IN
         IF user = None
         THEN [code |-> 401, detail |-> "User not found", user |-> None]
         ELSE [code |-> 200, detail |-> "", user |-> user]

\* AuthService.get_current_user: the detail names the check that failed.
AuthService_get_current_user(us, token, t) ==
    LET payload == decode_access_token(token, t) IN
    IF payload = None
    THEN [code |-> 401, detail |-> "Could not validate credentials", user |-> None]
    ELSE LET email == payload[1].sub IN
         IF email = ""
         THEN [code |-> 401, detail |-> "Could not validate credentials",
               user |-> None]
         ELSE LET user == get_by_email(us, email) IN
              IF user = None
              THEN [code |-> 401, detail |-> "User not found", user |-> None]
              ELSE IF ~user[1].is_active
              THEN [code |-> 401, detail |-> "User is inactive", user |-> None]
              ELSE [code |-> 200, detail |-> "", user |-> user]

\* ------------------------------------------------------------ dependencies.py
\* get_current_user that leaves the inactive check to the next dependency.
get_current_user_lenient(us, token, t) ==
    LET r == AuthService_get_current_user_noactive(us, token, t) IN
    IF r.code # 200
    THEN [code |-> 401, detail |-> "Could not validate credentials", user |-> None]
    ELSE r

\* get_current_user: any exception of the service becomes one 401.
get_current_user(us, token, t) ==
    LET r == AuthService_get_current_user(us, token, t) IN
    IF r.code # 200
    THEN [code |-> 401, detail |-> "Could not validate credentials", user |-> None]
    ELSE r

\* get_current_active_user, chained on get_current_user.
get_current_active_user(current) ==
    IF current.code # 200 THEN current
    ELSE IF ~current.user[1].is_active
    THEN [code |-> 400, detail |-> "Inactive user", user |-> None]
    ELSE current

\* get_current_superuser without the flag check.
get_current_superuser_nocheck(current) == current

\* get_current_superuser, chained on get_current_user.
get_current_superuser(current) ==
    IF current.code # 200 THEN current
    ELSE IF ~current.user[1].is_superuser
    THEN [code |-> 403, detail |-> "Not enough permissions", user |-> None]
    ELSE current

\* ------------------------------------------------------------------ inputs
\* A register request body: the declared fields and two that UserCreate does
\* not declare.
Bodies ==
    [email : Emails, username : Usernames, password : Passwords,
     is_active : BOOLEAN, is_superuser : BOOLEAN]

\* A UserUpdate: each field unset (None) or set.
Opt(S) == {None} \cup {Some(x) : x \in S}
UserUpdates == [email : Opt(Emails), username : Opt(Usernames), password : Opt(Passwords)]

\* A string that is no JWT.
Garbage ==
    [wellformed |-> FALSE,
     payload |-> [sub |-> "", user_id |-> 0, email |-> "", exp |-> NoExp],
     sig |-> [key |-> "", over |-> << >>]]

\* A token with one character of its payload altered (the signature is the
\* old one), and one with a character of its signature altered.
AlteredPayload(token) ==
    {[token EXCEPT !.payload.sub = e, !.payload.email = e] :
        e \in Emails \ {token.payload.sub}}
    \cup {[token EXCEPT !.payload.exp = @ + TickMinutes]}
AlteredSignature(token) == [token EXCEPT !.sig.key = OtherKey]

\* A token the server's key signs that carries no subject.
Subjectless(t) ==
    create_access_token([sub |-> "", user_id |-> 0, email |-> "", exp |-> NoExp],
                        None, t)

\* What a client can present as a bearer token.
Presentable ==
    {Garbage, Subjectless(now)}
    \cup (IF held = None THEN {}
          ELSE {held[1], AlteredSignature(held[1])} \cup AlteredPayload(held[1]))

\* --------------------------------------------------------------- responses
NoReq == [email |-> "", username |-> "", password |-> "", presented |-> None,
          is_active |-> FALSE, is_superuser |-> FALSE,
          job_id |-> 0, document_id |-> 0, file |-> None, query |-> None]

\* body is the row a job or document route answers with; code 0 is a
\* request that has not been answered yet.
Idle == [op |-> "", code |-> 0, detail |-> "", uid |-> 0, token |-> None,
         payload |-> None, body |-> None, req |-> NoReq]

UserId(user) == IF user = None THEN 0 ELSE user[1].id

\* A request slot that has not started: no session acquired, none closed.
NoSession == [pc |-> "idle", route |-> "", session |-> 0, opened |-> 0,
              closed |-> 0, outcome |-> ""]

\* ------------------------------------------------------------------- state
Init ==
    /\ users = {}
    /\ nextId = 1
    /\ now = 0
    /\ held = None
    /\ minted = None
    /\ registered = {}
    /\ inflight = [i \in 1..MaxInFlight |-> None]
    /\ resp = Idle
    /\ jobs = {}
    /\ nextJobId = 1
    /\ documents = {}
    /\ nextDocId = 1
    /\ files = {}
    /\ dirs = {}
    /\ nextFileId = 1
    /\ call = None
    /\ sessions = [next |-> 1, slot |-> [i \in 1..MaxInFlight |-> NoSession]]

\* POST /auth/register, run without interleaving.
Register(body) ==
    LET r == register(users, nextId, UserCreate(body)) IN
    /\ r.code = 201 => nextId <= MaxUsers
    /\ users' = r.users
    /\ nextId' = IF r.code = 201 THEN nextId + 1 ELSE nextId
    /\ registered' = IF r.code = 201
                     THEN registered \cup {[id |-> nextId, email |-> body.email,
                                            password |-> body.password]}
                     ELSE registered
    /\ resp' = [Idle EXCEPT !.op = "register", !.code = r.code,
                            !.detail = r.detail, !.uid = UserId(r.user),
                            !.req = [NoReq EXCEPT !.email = body.email,
                                                  !.username = body.username,
                                                  !.password = body.password,
                                                  !.is_active = body.is_active,
                                                  !.is_superuser = body.is_superuser]]
    /\ UNCHANGED <<now, held, minted, inflight>>
    /\ UNCHANGED appvars

\* POST /auth/login.
Login(email, password) ==
    LET r == login(users, email, password, now) IN
    /\ resp' = [Idle EXCEPT !.op = "login", !.code = r.code, !.detail = r.detail,
                            !.token = r.token,
                            !.req = [NoReq EXCEPT !.email = email,
                                                  !.password = password]]
    /\ UNCHANGED <<users, nextId, now, held, minted, registered, inflight>>
    /\ UNCHANGED appvars

\* The client stores the token of the login response it just received, in
\* place of the one it held.
Keep ==
    /\ resp.op = "login" /\ resp.code = 200
    /\ held # resp.token
    /\ held' = resp.token
    /\ minted' = Some([data |-> [resp.token[1].payload EXCEPT !.exp = NoExp],
                        ttl |-> Some(AccessTokenExpireMinutes),
                        at |-> now,
                        admin |-> \E u \in users :
                                     /\ u.id = resp.token[1].payload.user_id
                                     /\ u.is_superuser])
    /\ UNCHANGED <<users, nextId, now, registered, inflight, resp>>
    /\ UNCHANGED appvars

\* GET /auth/me: Depends(get_current_active_user); the handler returns the user.
Me(presented) ==
    LET r == get_current_active_user(get_current_user(users, presented, now)) IN
    /\ resp' = [Idle EXCEPT !.op = "me", !.code = r.code, !.detail = r.detail,
                            !.uid = UserId(r.user),
                            !.req = [NoReq EXCEPT !.presented = Some(presented)]]
    /\ UNCHANGED <<users, nextId, now, held, minted, registered, inflight>>
    /\ UNCHANGED appvars

\* A route declared with Depends(get_current_superuser).
AdminRoute(presented) ==
    LET r == get_current_superuser(get_current_user(users, presented, now)) IN
    /\ resp' = [Idle EXCEPT !.op = "admin", !.code = r.code, !.detail = r.detail,
                            !.uid = UserId(r.user),
                            !.req = [NoReq EXCEPT !.presented = Some(presented)]]
    /\ UNCHANGED <<users, nextId, now, held, minted, registered, inflight>>
    /\ UNCHANGED appvars

\* UserRepository.update, called on the store.
UpdateUser(user_id, user_update) ==
    LET r == update(users, user_id, user_update) IN
    /\ users' = r.users
    /\ resp' = [Idle EXCEPT !.op = "update",
                            !.code = IF r.raised # "" THEN 500
                                     ELSE IF r.user = None THEN 404 ELSE 200,
                            !.detail = r.raised, !.uid = UserId(r.user)]
    /\ UNCHANGED <<nextId, now, held, minted, registered, inflight>>
    /\ UNCHANGED appvars

\* UserRepository.delete, called on the store.
DeleteUser(user_id) ==
    LET r == delete(users, user_id) IN
    /\ users' = r.users
    /\ resp' = [Idle EXCEPT !.op = "delete",
                            !.code = IF r.deleted THEN 200 ELSE 404]
    /\ UNCHANGED <<nextId, now, held, minted, registered, inflight>>
    /\ UNCHANGED appvars

\* The is_active and is_superuser columns are written by the store's
\* administrator: no schema of the API carries them.
SetActive(user_id, flag) ==
    /\ \E u \in users : u.id = user_id /\ u.is_active # flag
    /\ users' = {IF u.id = user_id THEN [u EXCEPT !.is_active = flag] ELSE u :
                    u \in users}
    /\ resp' = Idle
    /\ UNCHANGED <<nextId, now, held, minted, registered, inflight>>
    /\ UNCHANGED appvars

SetSuperuser(user_id, flag) ==
    /\ \E u \in users : u.id = user_id /\ u.is_superuser # flag
    /\ users' = {IF u.id = user_id THEN [u EXCEPT !.is_superuser = flag] ELSE u :
                    u \in users}
    /\ resp' = Idle
    /\ UNCHANGED <<nextId, now, held, minted, registered, inflight>>
    /\ UNCHANGED appvars

\* The clock advances.
Tick ==
    /\ now + TickMinutes <= MaxTicks * TickMinutes
    /\ now' = now + TickMinutes
    /\ resp' = Idle
    /\ UNCHANGED <<users, nextId, held, minted, registered, inflight>>
    /\ UNCHANGED appvars

Ids == 1..MaxUsers

\* An update that sets at most one field.
OneFieldUpdates ==
    {upd \in UserUpdates :
        Cardinality({f \in {"email", "username", "password"} : upd[f] # None}) <= 1}

\* Each email registers with one username: login and identity resolution
\* read a row's email, password hash and flags only.
UsernameOf(email) == IF email = "a@x.io" THEN "alice" ELSE "bob"

LoginBodies ==
    {body \in Bodies :
        /\ body.username = UsernameOf(body.email)
        /\ ~body.is_active /\ ~body.is_superuser}

CredentialUpdates == {upd \in OneFieldUpdates : upd.username = None}

\* Login over a users table that registrations, updates, deletions and
\* deactivations change.
Next ==
    \/ \E body \in LoginBodies : Register(body)
    \/ \E e \in Emails, p \in Passwords : Login(e, p)
    \/ \E i \in Ids, upd \in CredentialUpdates : UpdateUser(i, upd)
    \/ \E i \in Ids : DeleteUser(i)
    \/ \E i \in Ids, b \in BOOLEAN : SetActive(i, b)

Spec == Init /\ [][Next]_vars

\* Registration with every request body.
NextRegister ==
    \/ \E body \in Bodies : Register(body)
    \/ \E e \in Emails, p \in Passwords : Login(e, p)
    \/ \E i \in Ids : DeleteUser(i)

SpecRegister == Init /\ [][NextRegister]_vars

\* Identity resolution: a client that registers, logs in and presents tokens
\* while the table and the clock change.  One password serves.
ResolveBodies == {body \in LoginBodies : body.password = "secret1"}

EmailUpdates == {upd \in UserUpdates : upd.username = None /\ upd.password = None}

NextResolve ==
    \/ \E body \in ResolveBodies : Register(body)
    \/ \E e \in Emails : Login(e, "secret1")
    \/ Keep
    \/ \E t \in Presentable : Me(t)
    \/ \E i \in Ids, upd \in EmailUpdates : UpdateUser(i, upd)
    \/ \E i \in Ids : DeleteUser(i)
    \/ \E i \in Ids, b \in BOOLEAN : SetActive(i, b)
    \/ Tick

SpecResolve == Init /\ [][NextResolve]_vars

NextAdmin ==
    \/ \E body \in ResolveBodies : Register(body)
    \/ \E e \in Emails : Login(e, "secret1")
    \/ Keep
    \/ \E t \in Presentable : AdminRoute(t)
    \/ \E i \in Ids, b \in BOOLEAN : SetActive(i, b)
    \/ \E i \in Ids, b \in BOOLEAN : SetSuperuser(i, b)
    \/ Tick

SpecAdmin == Init /\ [][NextAdmin]_vars

\* The token functions on their own: a caller issues tokens with claims and
\* ttl of its choice and decodes what it holds, altered or not, as time passes.
TokenClaims ==
    {[sub |-> e, user_id |-> 1, email |-> e, exp |-> NoExp] : e \in Emails}

Ttls == {0 - 10, 0, 10, AccessTokenExpireMinutes}

Issue(data, ttl) ==
    /\ held' = Some(create_access_token(data, ttl, now))
    /\ minted' = Some([data |-> data, ttl |-> ttl, at |-> now, admin |-> FALSE])
    /\ resp' = [Idle EXCEPT !.op = "create", !.token = held']
    /\ UNCHANGED <<users, nextId, now, registered, inflight>>
    /\ UNCHANGED appvars

Decode(presented) ==
    /\ resp' = [Idle EXCEPT !.op = "decode",
                            !.payload = decode_access_token(presented, now),
                            !.req = [NoReq EXCEPT !.presented = Some(presented)]]
    /\ UNCHANGED <<users, nextId, now, held, minted, registered, inflight>>
    /\ UNCHANGED appvars

NextToken ==
    \/ \E data \in TokenClaims, ttl \in Opt(Ttls) : Issue(data, ttl)
    \/ \E t \in Presentable : Decode(t)
    \/ Tick

SpecToken == Init /\ [][NextToken]_vars

\* Concurrent requests on the users table: a register runs its two checks and
\* its insert as three steps, and other requests run between them.
Slots == 1..MaxInFlight

ConcBodies ==
    {body \in Bodies :
        body.password = "secret1" /\ ~body.is_active /\ ~body.is_superuser}

IdentityUpdates == {upd \in UserUpdates : upd.password = None}

RegisterResponse(code, detail, user, uc) ==
    [Idle EXCEPT !.op = "register", !.code = code, !.detail = detail,
                 !.uid = UserId(user),
                 !.req = [NoReq EXCEPT !.email = uc.email,
                                       !.username = uc.username,
                                       !.password = uc.password]]

\* register, lines 80-82: the email check.
RegCheckEmail(i, body) ==
    LET uc == UserCreate(body) IN
    /\ inflight[i] = None
    /\ IF exists_by_email(users, uc.email)
       THEN /\ resp' = RegisterResponse(409, "Email already registered", None, uc)
            /\ UNCHANGED inflight
       ELSE /\ inflight' = [inflight EXCEPT ![i] = Some([uc |-> uc, pc |-> "username"])]
            /\ resp' = Idle
    /\ UNCHANGED <<users, nextId, now, held, minted, registered>>
    /\ UNCHANGED appvars

\* register, lines 84-86: the username check.
RegCheckUsername(i) ==
    /\ inflight[i] # None /\ inflight[i][1].pc = "username"
    /\ LET uc == inflight[i][1].uc IN
       IF exists_by_username(users, uc.username)
       THEN /\ resp' = RegisterResponse(409, "Username already taken", None, uc)
            /\ inflight' = [inflight EXCEPT ![i] = None]
       ELSE /\ inflight' = [inflight EXCEPT ![i] = Some([uc |-> uc, pc |-> "create"])]
            /\ resp' = Idle
    /\ UNCHANGED <<users, nextId, now, held, minted, registered>>
    /\ UNCHANGED appvars

\* register, lines 88-91: the insert and its commit.
RegCreate(i) ==
    /\ inflight[i] # None /\ inflight[i][1].pc = "create"
    /\ LET uc == inflight[i][1].uc
           r == create(users, nextId, uc)
       IN  /\ r.raised = "" => nextId <= MaxUsers
           /\ users' = r.users
           /\ nextId' = IF r.raised = "" THEN nextId + 1 ELSE nextId
           /\ resp' = IF r.raised = ""
                      THEN RegisterResponse(201, "", r.user, uc)
                      ELSE RegisterResponse(500, r.raised, None, uc)
    /\ inflight' = [inflight EXCEPT ![i] = None]
    /\ UNCHANGED <<now, held, minted, registered>>
    /\ UNCHANGED appvars

NextConc ==
    \/ \E i \in Slots, body \in ConcBodies : RegCheckEmail(i, body)
    \/ \E i \in Slots : RegCheckUsername(i)
    \/ \E i \in Slots : RegCreate(i)
    \/ \E i \in Ids, upd \in IdentityUpdates : UpdateUser(i, upd)
    \/ \E i \in Ids : DeleteUser(i)

SpecConc == Init /\ [][NextConc]_vars

\* str.lower() and the case folding of ilike, on the characters the modelled
\* names use.
LowerChar(c) ==
    CASE c = "P" -> "p" [] c = "D" -> "d" [] c = "F" -> "f"
      [] c = "C" -> "c" [] c = "V" -> "v" [] c = "A" -> "a"
      [] c = "E" -> "e" [] OTHER -> c

Lower(s) == [i \in 1..Len(s) |-> LowerChar(s[i])]

\* ------------------------------------------------- models/job_application.py
ApplicationStatus == {"applied", "interview", "offer", "rejected", "withdrawn"}

\* The statuses that the requests of most runs carry.
Statuses == {"applied", "interview"}

\* SQL NULL, JSON null, Python None as the value of a text or enum field, and
\* a timestamp column that holds NULL.
Null == "null"
NoTime == 0 - 1

\* A company name is a sequence of characters.
Acme == <<"A", "c", "m", "e">>
Apex == <<"a", "p", "e", "x">>

\* JobApplication(**fields, user_id=...): the modelled columns.  created_at
\* is the server's now() at the insert (the clock of the model has the
\* resolution of a minute, so rows may share it); updated_at is NULL until
\* an UPDATE sets it.
NewJob(id, fields, user_id, t) ==
    [id |-> id, user_id |-> user_id, company_name |-> fields.company_name,
     status |-> fields.status, notes |-> fields.notes,
     created_at |-> t, updated_at |-> NoTime]

\* ------------------------------------------------ schemas/job_application.py
JobApplicationCreates == [company_name : {Acme}, status : Statuses, notes : {Null}]

\* A JobApplicationUpdate: each field unset (None) or set to a value, which
\* for the Optional fields of the schema may be null.
JobApplicationUpdates ==
    [company_name : Opt({Apex}),
     status : Opt(Statuses \cup {Null}),
     notes : Opt({Null, "n1"})]

\* -------------------------------------------- repositories/job_repository.py
\* get_by_id that filters by the primary key only.
JobApplicationRepository_get_by_id_any(js, job_id, user_id) ==
    IF \E j \in js : j.id = job_id
    THEN Some(CHOOSE j \in js : j.id = job_id)
    ELSE None

\* get_by_id filters by the primary key and by the owner.
JobApplicationRepository_get_by_id(js, job_id, user_id) ==
    IF \E j \in js : j.id = job_id /\ j.user_id = user_id
    THEN Some(CHOOSE j \in js : j.id = job_id /\ j.user_id = user_id)
    ELSE None

JobApplicationRepository_create(js, id, job_create, user_id, t) ==
    LET db_job == NewJob(id, job_create, user_id, t) IN
    [jobs |-> js \cup {db_job}, job |-> Some(db_job)]

\* model_dump(exclude_unset=True) and setattr: the fields that were set are
\* assigned.
Assigned(db_job, job_update) ==
    [db_job EXCEPT
       !.company_name = IF job_update.company_name = None THEN @
                        ELSE job_update.company_name[1],
       !.status = IF job_update.status = None THEN @ ELSE job_update.status[1],
       !.notes = IF job_update.notes = None THEN @ ELSE job_update.notes[1]]

\* update: the commit flushes an UPDATE when an attribute differs from what
\* was loaded, and then updated_at takes now(); status is NOT NULL, so the
\* store refuses a null in it: the IntegrityError is not caught and the row
\* stays as it was.
JobApplicationRepository_update(js, job_id, user_id, job_update, t) ==
    LET db_job == JobApplicationRepository_get_by_id(js, job_id, user_id) IN
    IF db_job = None
    THEN [raised |-> "", jobs |-> js, job |-> None]
    ELSE LET old == db_job[1]
             assigned == Assigned(old, job_update)
             new == [assigned EXCEPT !.updated_at = t]
         IN  IF assigned = old
             THEN [raised |-> "", jobs |-> js, job |-> db_job]
             ELSE IF assigned.status = Null
             THEN [raised |-> "IntegrityError", jobs |-> js, job |-> None]
             ELSE [raised |-> "", jobs |-> (js \ {old}) \cup {new},
                   job |-> Some(new)]

\* ilike(f"%{company}%"): the name contains the text, letter case aside.
\* The filter texts of the runs hold no % and no _.
Contains(s, sub) ==
    \E i \in 1..(Len(s) - Len(sub) + 1) : SubSeq(s, i, i + Len(sub) - 1) = sub

ILike(name, company) == Contains(Lower(name), Lower(company))

\* The rows of a user that pass the filters: `if status:` and `if company:`
\* add a filter for a value that is given and, for company, not empty.
Matching(js, user_id, status, company) ==
    {j \in js :
        /\ j.user_id = user_id
        /\ (status = None \/ j.status = status[1])
        /\ (company = None \/ company[1] = << >>
              \/ ILike(j.company_name, company[1]))}

\* order_by(desc(created_at)): every order of the rows in which no row comes
\* before a newer one; the store is free in the order of rows of one
\* created_at.
NewestFirstOrders(S) ==
    {f \in [1..Cardinality(S) -> S] :
        /\ \A x \in S : \E i \in 1..Cardinality(S) : f[i] = x
        /\ \A i, k \in 1..Cardinality(S) :
              i < k => f[i].created_at >= f[k].created_at}

Min(a, b) == IF a < b THEN a ELSE b

\* offset(skip).limit(limit) of an ordered result.
Page(all, skip, limit) ==
    [i \in 1..(Min(skip + limit, Len(all)) - Min(skip, Len(all))) |-> all[skip + i]]

\* get_all_by_user: filter, newest first, offset(skip).limit(limit); the
\* results the store can return.
JobApplicationRepository_get_all_by_user(js, user_id, skip, limit, status, company) ==
    {Page(all, skip, limit) :
        all \in NewestFirstOrders(Matching(js, user_id, status, company))}

JobApplicationRepository_count_by_user(js, user_id, status, company) ==
    Cardinality(Matching(js, user_id, status, company))

RECURSIVE SumValues(_, _)
SumValues(stats, keys) ==
    IF keys = {} THEN 0
    ELSE LET k == CHOOSE x \in keys : TRUE
         IN  stats[k] + SumValues(stats, keys \ {k})

\* get_statistics that counts the rows of every user.
JobApplicationRepository_get_statistics_all_users(js, user_id) ==
    LET stats == [st \in ApplicationStatus |->
                     Cardinality({j \in js : j.status = st})]
    IN  [counts |-> stats,
         total_applications |-> SumValues(stats, ApplicationStatus)]

\* get_statistics: GROUP BY status over the rows of the user gives a count
\* for each status that occurs; the other statuses are filled in with 0 and
\* total_applications is the sum of the values.
JobApplicationRepository_get_statistics(js, user_id) ==
    LET mine == {j \in js : j.user_id = user_id}
        occurring == {j.status : j \in mine}
        results == [st \in occurring |->
                       Cardinality({j \in mine : j.status = st})]
        stats == [st \in ApplicationStatus |->
                     IF st \in occurring THEN results[st] ELSE 0]
    IN  [counts |-> stats,
         total_applications |-> SumValues(stats, ApplicationStatus)]

\* delete: the documents of the job go with it (cascade="all, delete-orphan");
\* their files are not touched.
JobApplicationRepository_delete(js, docs, job_id, user_id) ==
    LET db_job == JobApplicationRepository_get_by_id(js, job_id, user_id) IN
    IF db_job = None
    THEN [deleted |-> FALSE, jobs |-> js, documents |-> docs]
    ELSE [deleted |-> TRUE, jobs |-> js \ {db_job[1]},
          documents |-> {d \in docs : d.job_application_id # job_id}]

\* -------------------------------------------------- services/job_service.py
\* NotFoundException(f"Job application with id {job_id} not found"): the id in
\* the text is the one of the request.
JobNotFound == "Job application with id {job_id} not found"

JobApplicationService_create_application(js, id, job_create, user_id, t) ==
    LET r == JobApplicationRepository_create(js, id, job_create, user_id, t) IN
    [code |-> 201, detail |-> "", jobs |-> r.jobs, job |-> r.job]

JobApplicationService_get_application(js, job_id, user_id) ==
    LET job == JobApplicationRepository_get_by_id(js, job_id, user_id) IN
    IF job = None
    THEN [code |-> 404, detail |-> JobNotFound, jobs |-> js, job |-> None]
    ELSE [code |-> 200, detail |-> "", jobs |-> js, job |-> job]

\* The response of get_all_applications for the items of the first query
\* and the total of the second: pages = ceil(total / size).
JobApplicationListResponse(items, total, page, size) ==
    [items |-> items, total |-> total, page |-> page, size |-> size,
     pages |-> IF size > 0 THEN (total + size - 1) \div size ELSE 0]

\* get_all_applications with pages counted from 0.
JobApplicationService_get_all_applications_from_zero(js, user_id, page, size, status, company) ==
    {JobApplicationListResponse(
         items, JobApplicationRepository_count_by_user(js, user_id, status, company),
         page, size) :
        items \in JobApplicationRepository_get_all_by_user(
                      js, user_id, page * size, size, status, company)}

\* get_all_applications, both queries on one state of the table:
\* skip = (page - 1) * size; the responses it can give.
JobApplicationService_get_all_applications(js, user_id, page, size, status, company) ==
    LET skip == (page - 1) * size
        total == JobApplicationRepository_count_by_user(js, user_id, status, company)
    IN  {JobApplicationListResponse(items, total, page, size) :
            items \in JobApplicationRepository_get_all_by_user(
                          js, user_id, skip, size, status, company)}

\* get_statistics: the JobApplicationStats of the repository's dictionary.
JobApplicationService_get_statistics(js, user_id) ==
    LET stats == JobApplicationRepository_get_statistics(js, user_id) IN
    [total_applications |-> stats.total_applications,
     applied |-> stats.counts["applied"],
     interview |-> stats.counts["interview"],
     offer |-> stats.counts["offer"],
     rejected |-> stats.counts["rejected"],
     withdrawn |-> stats.counts["withdrawn"]]

\* update_application: an exception of the repository passes through.
JobApplicationService_update_application(js, job_id, job_update, user_id, t) ==
    LET r == JobApplicationRepository_update(js, job_id, user_id, job_update, t) IN
    IF r.raised # ""
    THEN [code |-> 500, detail |-> r.raised, jobs |-> js, job |-> None]
    ELSE IF r.job = None
    THEN [code |-> 404, detail |-> JobNotFound, jobs |-> js, job |-> None]
    ELSE [code |-> 200, detail |-> "", jobs |-> r.jobs, job |-> r.job]

JobApplicationService_delete_application(js, docs, job_id, user_id) ==
    LET r == JobApplicationRepository_delete(js, docs, job_id, user_id) IN
    IF ~r.deleted
    THEN [code |-> 404, detail |-> JobNotFound, jobs |-> js, documents |-> docs]
    ELSE [code |-> 200, detail |-> "Job application deleted successfully",
          jobs |-> r.jobs, documents |-> r.documents]

\* ------------------------------------------------------- protected routes
\* Depends(get_current_active_user): the chain every job and document route
\* and /auth/me declares.
\* A chain that reads the claims of the presented token without resolving it.
Authorize_unverified(us, token, t) ==
    LET user == get_by_id(us, token.payload.user_id) IN
    IF user = None
    THEN [code |-> 401, detail |-> "Could not validate credentials", user |-> None]
    ELSE [code |-> 200, detail |-> "", user |-> user]

Authorize(us, token, t) ==
    get_current_active_user(get_current_user(us, token, t))

\* The response of a route whose dependency chain raised.
Refused(op, a, presented) ==
    [Idle EXCEPT !.op = op, !.code = a.code, !.detail = a.detail,
                 !.req = [NoReq EXCEPT !.presented = Some(presented)]]

\* ------------------------------------------------------------ api/v1/jobs.py
\* POST /jobs
CreateJob(presented, job_create) ==
    LET a == Authorize(users, presented, now) IN
    /\ IF a.code # 200
       THEN /\ resp' = Refused("create_job", a, presented)
            /\ UNCHANGED <<jobs, nextJobId>>
       ELSE LET r == JobApplicationService_create_application(
                         jobs, nextJobId, job_create, a.user[1].id, now)
            IN  /\ nextJobId <= MaxJobs
                /\ jobs' = r.jobs
                /\ nextJobId' = nextJobId + 1
                /\ resp' = [Idle EXCEPT !.op = "create_job", !.code = r.code,
                               !.uid = a.user[1].id, !.body = r.job,
                               !.req = [NoReq EXCEPT !.presented = Some(presented),
                                                     !.job_id = nextJobId]]
    /\ UNCHANGED authvars
    /\ UNCHANGED <<documents, nextDocId, files, dirs, nextFileId, call, sessions>>

\* GET /jobs?page=&size=&status=&company=, the two queries of the service
\* run with no other request between them.
GetAllJobs(presented, page, size, status, company) ==
    LET a == Authorize(users, presented, now) IN
    /\ IF a.code # 200
       THEN resp' = Refused("get_all_jobs", a, presented)
       ELSE \E r \in JobApplicationService_get_all_applications(
                         jobs, a.user[1].id, page, size, status, company) :
               resp' = [Idle EXCEPT
                           !.op = "get_all_jobs", !.code = 200,
                           !.uid = a.user[1].id, !.body = Some(r),
                           !.req = [NoReq EXCEPT
                                      !.presented = Some(presented),
                                      !.query = Some([page |-> page,
                                                      size |-> size,
                                                      status |-> status,
                                                      company |-> company])]]
    /\ UNCHANGED authvars
    /\ UNCHANGED appvars

\* GET /jobs/stats
GetStatistics(presented) ==
    LET a == Authorize(users, presented, now) IN
    /\ IF a.code # 200
       THEN resp' = Refused("get_statistics", a, presented)
       ELSE resp' = [Idle EXCEPT
                        !.op = "get_statistics", !.code = 200, !.uid = a.user[1].id,
                        !.body = Some(JobApplicationService_get_statistics(
                                          jobs, a.user[1].id)),
                        !.req = [NoReq EXCEPT !.presented = Some(presented)]]
    /\ UNCHANGED authvars
    /\ UNCHANGED appvars

\* GET /jobs/{job_id}
GetJob(presented, job_id) ==
    LET a == Authorize(users, presented, now) IN
    /\ IF a.code # 200
       THEN resp' = Refused("get_job", a, presented)
       ELSE LET r == JobApplicationService_get_application(
                         jobs, job_id, a.user[1].id)
            IN  resp' = [Idle EXCEPT !.op = "get_job", !.code = r.code,
                            !.detail = r.detail,
                            !.uid = a.user[1].id, !.body = r.job,
                            !.req = [NoReq EXCEPT !.presented = Some(presented),
                                                  !.job_id = job_id]]
    /\ UNCHANGED authvars
    /\ UNCHANGED appvars

\* PUT /jobs/{job_id}
UpdateJob(presented, job_id, job_update) ==
    LET a == Authorize(users, presented, now) IN
    /\ IF a.code # 200
       THEN /\ resp' = Refused("update_job", a, presented)
            /\ UNCHANGED jobs
       ELSE LET r == JobApplicationService_update_application(
                         jobs, job_id, job_update, a.user[1].id, now)
            IN  /\ jobs' = r.jobs
                /\ resp' = [Idle EXCEPT !.op = "update_job", !.code = r.code,
                               !.detail = r.detail,
                               !.uid = a.user[1].id, !.body = r.job,
                               !.req = [NoReq EXCEPT !.presented = Some(presented),
                                                     !.job_id = job_id]]
    /\ UNCHANGED authvars
    /\ UNCHANGED <<nextJobId, documents, nextDocId, files, dirs, nextFileId,
                   call, sessions>>

\* DELETE /jobs/{job_id}
DeleteJob(presented, job_id) ==
    LET a == Authorize(users, presented, now) IN
    /\ IF a.code # 200
       THEN /\ resp' = Refused("delete_job", a, presented)
            /\ UNCHANGED <<jobs, documents>>
       ELSE LET r == JobApplicationService_delete_application(
                         jobs, documents, job_id, a.user[1].id)
            IN  /\ jobs' = r.jobs
                /\ documents' = r.documents
                /\ resp' = [Idle EXCEPT !.op = "delete_job", !.code = r.code,
                               !.detail = r.detail,
                               !.uid = a.user[1].id,
                               !.req = [NoReq EXCEPT !.presented = Some(presented),
                                                     !.job_id = job_id]]
    /\ UNCHANGED authvars
    /\ UNCHANGED <<nextJobId, nextDocId, files, dirs, nextFileId, call, sessions>>

JobIds == 1..MaxJobs

\* The bearer token of a client that presents what it holds.
Bearer == IF held = None THEN {} ELSE {held[1]}

\* The job routes, called by two clients that register and log in.
NextJobs ==
    \/ \E body \in ResolveBodies : Register(body)
    \/ \E e \in Emails : Login(e, "secret1")
    \/ Keep
    \/ \E t \in Bearer, jc \in JobApplicationCreates : CreateJob(t, jc)
    \/ \E t \in Bearer, j \in JobIds : GetJob(t, j)
    \/ \E t \in Bearer, j \in JobIds, ju \in JobApplicationUpdates : UpdateJob(t, j, ju)
    \/ \E t \in Bearer, j \in JobIds : DeleteJob(t, j)

SpecJobs == Init /\ [][NextJobs]_vars

\* ------------------------------------------------ services/file_service.py
\* config.py: max_upload_size, in bytes
MaxUploadSize == 5242880

\* A file name is a sequence of characters, each a one-character string.
ALLOWED_EXTENSIONS ==
    {<<".", "p", "d", "f">>, <<".", "d", "o", "c">>,
     <<".", "d", "o", "c", "x">>, <<".", "t", "x", "t">>}

ALLOWED_MIME_TYPES ==
    {"application/pdf", "application/msword",
     "application/vnd.openxmlformats-officedocument.wordprocessingml.document",
     "text/plain"}

\* Path(name).suffix and Path(name).stem: the name splits at its last dot
\* when that dot is neither the first nor the last character.
LastDot(s) ==
    IF \E i \in 1..Len(s) : s[i] = "."
    THEN CHOOSE i \in 1..Len(s) :
             s[i] = "." /\ \A k \in (i + 1)..Len(s) : s[k] # "."
    ELSE 0

Splits(s) == LastDot(s) > 1 /\ LastDot(s) < Len(s)

Suffix(s) == IF Splits(s) THEN SubSeq(s, LastDot(s), Len(s)) ELSE << >>

Stem(s) == IF Splits(s) THEN SubSeq(s, 1, LastDot(s) - 1) ELSE s

\* _validate_file: the detail of the BadRequest it raises, "" when it passes.
\* Validation by the extension alone.
FileService_validate_file_ext_only(file) ==
    IF file.filename = << >> THEN "No file provided"
    ELSE IF Lower(Suffix(file.filename)) \notin ALLOWED_EXTENSIONS
    THEN "File type not allowed"
    ELSE ""

FileService_validate_file(file) ==
    IF file.filename = << >> THEN "No file provided"
    ELSE IF Lower(Suffix(file.filename)) \notin ALLOWED_EXTENSIONS
    THEN "File type not allowed"
    ELSE IF file.content_type \notin ALLOWED_MIME_TYPES
    THEN "Content type not allowed"
    ELSE ""

\* _generate_unique_filename: stem, the first characters of a fresh uuid4,
\* the extension as given.
FileService_generate_unique_filename(original_filename, unique_id) ==
    [stem |-> Stem(original_filename), id |-> unique_id,
     ext |-> Suffix(original_filename)]

\* uploads/user_{user_id}/job_{job_id}
UserDir(user_id, job_id) == [user_id |-> user_id, job_id |-> job_id]

\* The path of a stored file, relative to the upload directory.
FilePath(user_id, job_id, unique_filename) ==
    [dir |-> UserDir(user_id, job_id), name |-> unique_filename]

Exists(fs, filepath) == \E f \in fs : f.path = filepath

\* delete_file: True when the file was there and unlink succeeded; an
\* exception of unlink is caught and answered with False.
FileService_delete_file(fs, filepath, unlink_raises) ==
    IF ~Exists(fs, filepath) THEN [deleted |-> FALSE, files |-> fs]
    ELSE IF unlink_raises THEN [deleted |-> FALSE, files |-> fs]
    ELSE [deleted |-> TRUE, files |-> {f \in fs : f.path # filepath}]

\* get_file_path raises BadRequest("File not found") for a missing file.
FileService_get_file_path(fs, filepath) ==
    IF Exists(fs, filepath) THEN Some(filepath) ELSE None

\* ------------------------------------------------------ models/documents.py
NewDocument(id, job_id, file, filepath, file_size, document_type) ==
    [id |-> id, job_application_id |-> job_id, filename |-> file.filename,
     filepath |-> filepath, file_size |-> file_size,
     content_type |-> file.content_type, document_type |-> document_type]

\* db.query(Document).filter(Document.id == document_id).first()
DocumentById(docs, document_id) ==
    IF \E d \in docs : d.id = document_id
    THEN Some(CHOOSE d \in docs : d.id = document_id)
    ELSE None

\* --------------------------------------------- services/document_service.py
DocumentNotFound == "Document with id {document_id} not found"

\* The lookup and the ownership check that open get_document and
\* delete_document; verb is "access" or "delete".
DocumentService_find(docs, js, document_id, user_id, verb) ==
    LET document == DocumentById(docs, document_id) IN
    IF document = None
    THEN [code |-> 404, detail |-> DocumentNotFound, document |-> None]
    ELSE IF JobApplicationRepository_get_by_id(
                js, document[1].job_application_id, user_id) = None
    THEN [code |-> 403,
          detail |-> IF verb = "access"
                     THEN "You don't have permission to access this document"
                     ELSE "You don't have permission to delete this document",
          document |-> None]
    ELSE [code |-> 200, detail |-> "", document |-> document]

\* get_document: the document and the path of its file.
DocumentService_get_document(docs, js, fs, document_id, user_id) ==
    LET r == DocumentService_find(docs, js, document_id, user_id, "access") IN
    IF r.code # 200 THEN r
    ELSE IF FileService_get_file_path(fs, r.document[1].filepath) = None
    THEN [code |-> 400, detail |-> "File not found", document |-> None]
    ELSE r

\* get_documents: the rows of a job of the caller.
\* get_documents without the lookup of the job.
DocumentService_get_documents_unscoped(docs, js, job_id, user_id) ==
    [code |-> 200, detail |-> "",
     documents |-> {d \in docs : d.job_application_id = job_id}]

DocumentService_get_documents(docs, js, job_id, user_id) ==
    IF JobApplicationRepository_get_by_id(js, job_id, user_id) = None
    THEN [code |-> 404, detail |-> JobNotFound, documents |-> {}]
    ELSE [code |-> 200, detail |-> "",
          documents |-> {d \in docs : d.job_application_id = job_id}]

\* ------------------------------------------------------------------ inputs
\* An UploadFile: its name, its declared content type and the number of
\* bytes file.read() returns.
Name(stem, ext) == stem \o ext

UploadFile(filename, content_type, size) ==
    [filename |-> filename, content_type |-> content_type, size |-> size]

\* Files that pass _validate_file: one of exactly the maximum size, with an
\* upper-case extension, and one a byte over the maximum.
AcceptableFiles ==
    {UploadFile(Name(<<"C", "V">>, <<".", "P", "D", "F">>), "application/pdf",
                MaxUploadSize),
     UploadFile(Name(<<"c", "v">>, <<".", "p", "d", "f">>), "application/pdf",
                MaxUploadSize + 1)}

\* Files that fail it: no name, a name without an extension, a name that is
\* only an extension, a foreign extension, a foreign content type.
UnacceptableFiles ==
    {UploadFile(<< >>, "application/pdf", 1),
     UploadFile(Name(<<"c", "v">>, << >>), "application/pdf", 1),
     UploadFile(Name(<< >>, <<".", "p", "d", "f">>), "application/pdf", 1),
     UploadFile(Name(<<"c", "v">>, <<".", "e", "x", "e">>), "application/pdf", 1),
     UploadFile(Name(<<"c", "v">>, <<".", "p", "d", "f">>), "image/png", 1)}

UploadFiles == AcceptableFiles \cup UnacceptableFiles

DocumentTypes == {"resume"}

DocIds == 1..MaxDocs

\* A document request between its steps.
NewCall(op, pc, presented, user_id) ==
    [op |-> op, pc |-> pc, presented |-> presented, user_id |-> user_id,
     job_id |-> 0, file |-> None, document_type |-> "", path |-> None,
     document |-> None, file_deleted |-> FALSE, items |-> << >>,
     query |-> None]

DocRequest(presented, job_id, document_id, file) ==
    [NoReq EXCEPT !.presented = Some(presented), !.job_id = job_id,
                  !.document_id = document_id, !.file = file]

\* ------------------------------------------------------- api/v1/documents.py
\* POST /jobs/{job_id}/documents, up to the end of _validate_file:
\* the dependency chain, the job lookup of upload_document, the validation
\* that opens save_file.
UploadBegin(presented, job_id, file, document_type) ==
    LET a == Authorize(users, presented, now)
        req == DocRequest(presented, job_id, 0, Some(file))
    IN
    /\ call = None
    /\ IF a.code # 200
       THEN /\ resp' = [Refused("upload", a, presented) EXCEPT !.req = req]
            /\ UNCHANGED call
       ELSE IF JobApplicationRepository_get_by_id(jobs, job_id, a.user[1].id) = None
       THEN /\ resp' = [Idle EXCEPT !.op = "upload", !.code = 404,
                           !.detail = JobNotFound, !.uid = a.user[1].id,
                           !.req = req]
            /\ UNCHANGED call
       ELSE IF FileService_validate_file(file) # ""
       THEN /\ resp' = [Idle EXCEPT !.op = "upload", !.code = 400,
                           !.detail = FileService_validate_file(file),
                           !.uid = a.user[1].id, !.req = req]
            /\ UNCHANGED call
       ELSE /\ nextFileId <= MaxDocs
            /\ call' = Some([NewCall("upload", "write", presented, a.user[1].id)
                               EXCEPT !.job_id = job_id, !.file = Some(file),
                                      !.document_type = document_type])
            /\ resp' = [Idle EXCEPT !.op = "upload", !.uid = a.user[1].id,
                                    !.req = req]
    /\ UNCHANGED authvars
    /\ UNCHANGED <<jobs, nextJobId, documents, nextDocId, files, dirs,
                   nextFileId, sessions>>

\* save_file, lines 167-181: the directory is made, the name generated, the
\* bytes written.
UploadWrite ==
    /\ call # None /\ call[1].op = "upload" /\ call[1].pc = "write"
    /\ LET c == call[1]
           unique_filename ==
               FileService_generate_unique_filename(c.file[1].filename, nextFileId)
           file_path == FilePath(c.user_id, c.job_id, unique_filename)
       IN  /\ dirs' = dirs \cup {UserDir(c.user_id, c.job_id)}
           /\ files' = files \cup {[path |-> file_path, size |-> c.file[1].size]}
           /\ nextFileId' = nextFileId + 1
           /\ call' = Some([c EXCEPT !.pc = "size", !.path = Some(file_path)])
    /\ resp' = Idle
    /\ UNCHANGED authvars
    /\ UNCHANGED <<jobs, nextJobId, documents, nextDocId, sessions>>

\* save_file, lines 184-200: the size check; a file over the limit is
\* unlinked and the request ends 400.
UploadCheckSize ==
    /\ call # None /\ call[1].op = "upload" /\ call[1].pc = "size"
    /\ LET c == call[1] IN
       IF c.file[1].size > MaxUploadSize
       THEN /\ files' = {f \in files : f.path # c.path[1]}
            /\ call' = None
            /\ resp' = [Idle EXCEPT !.op = "upload", !.code = 400,
                           !.detail = "File too large", !.uid = c.user_id,
                           !.req = DocRequest(c.presented, c.job_id, 0, c.file)]
       ELSE /\ call' = Some([c EXCEPT !.pc = "commit"])
            /\ resp' = Idle
            /\ UNCHANGED files
    /\ UNCHANGED authvars
    /\ UNCHANGED <<jobs, nextJobId, documents, nextDocId, dirs, nextFileId,
                   sessions>>

\* upload_document, lines 104-121: the row is added and committed.  A commit
\* the store fails (commit_ok false) raises out of the handler: nothing in
\* upload_document catches it.  When the job was deleted since the lookup,
\* a store that enforces the foreign key fails the commit and one that does
\* not (SQLite as the engine is configured) inserts the row.
UploadCommit(commit_ok) ==
    /\ call # None /\ call[1].op = "upload" /\ call[1].pc = "commit"
    /\ LET c == call[1]
           document == NewDocument(nextDocId, c.job_id, c.file[1], c.path[1],
                                   c.file[1].size, c.document_type)
           req == DocRequest(c.presented, c.job_id, 0, c.file)
       IN  IF commit_ok
           THEN /\ nextDocId <= MaxDocs
                /\ documents' = documents \cup {document}
                /\ nextDocId' = nextDocId + 1
                /\ resp' = [Idle EXCEPT !.op = "upload", !.code = 201,
                               !.detail = "File uploaded successfully",
                               !.uid = c.user_id, !.body = Some(document),
                               !.req = [req EXCEPT !.document_id = nextDocId]]
           ELSE /\ resp' = [Idle EXCEPT !.op = "upload", !.code = 500,
                               !.detail = "commit failed", !.uid = c.user_id,
                               !.req = req]
                /\ UNCHANGED <<documents, nextDocId>>
    /\ call' = None
    /\ UNCHANGED authvars
    /\ UNCHANGED <<jobs, nextJobId, files, dirs, nextFileId, sessions>>

\* GET /jobs/{job_id}/documents
GetDocuments(presented, job_id) ==
    LET a == Authorize(users, presented, now)
        req == DocRequest(presented, job_id, 0, None)
    IN
    /\ IF a.code # 200
       THEN resp' = [Refused("get_documents", a, presented) EXCEPT !.req = req]
       ELSE LET r == DocumentService_get_documents(
                         documents, jobs, job_id, a.user[1].id)
            IN  resp' = [Idle EXCEPT !.op = "get_documents", !.code = r.code,
                            !.detail = r.detail, !.uid = a.user[1].id,
                            !.body = IF r.code = 200
                                     THEN Some([items |-> r.documents])
                                     ELSE None,
                            !.req = req]
    /\ UNCHANGED authvars
    /\ UNCHANGED appvars

\* GET /documents/{document_id}
DownloadDocument(presented, document_id) ==
    LET a == Authorize(users, presented, now)
        req == DocRequest(presented, 0, document_id, None)
    IN
    /\ IF a.code # 200
       THEN resp' = [Refused("download", a, presented) EXCEPT !.req = req]
       ELSE LET r == DocumentService_get_document(
                         documents, jobs, files, document_id, a.user[1].id)
            IN  resp' = [Idle EXCEPT !.op = "download", !.code = r.code,
                            !.detail = r.detail, !.uid = a.user[1].id,
                            !.body = r.document, !.req = req]
    /\ UNCHANGED authvars
    /\ UNCHANGED appvars

\* DELETE /documents/{document_id}, up to the ownership check of
\* delete_document.
DeleteDocBegin(presented, document_id) ==
    LET a == Authorize(users, presented, now)
        req == DocRequest(presented, 0, document_id, None)
    IN
    /\ call = None
    /\ IF a.code # 200
       THEN /\ resp' = [Refused("delete_document", a, presented) EXCEPT !.req = req]
            /\ UNCHANGED call
       ELSE LET r == DocumentService_find(
                         documents, jobs, document_id, a.user[1].id, "delete")
            IN  IF r.code # 200
                THEN /\ resp' = [Idle EXCEPT !.op = "delete_document",
                                    !.code = r.code, !.detail = r.detail,
                                    !.uid = a.user[1].id, !.req = req]
                     /\ UNCHANGED call
                ELSE /\ call' = Some([NewCall("delete_document", "unlink",
                                              presented, a.user[1].id)
                                        EXCEPT !.document = r.document])
                     /\ resp' = [Idle EXCEPT !.op = "delete_document",
                                             !.uid = a.user[1].id, !.req = req]
    /\ UNCHANGED authvars
    /\ UNCHANGED <<jobs, nextJobId, documents, nextDocId, files, dirs,
                   nextFileId, sessions>>

\* delete_document, line 285: delete_file; its result is not read.
DeleteDocUnlink(unlink_raises) ==
    /\ call # None /\ call[1].op = "delete_document" /\ call[1].pc = "unlink"
    /\ LET c == call[1]
           r == FileService_delete_file(files, c.document[1].filepath, unlink_raises)
       IN  /\ files' = r.files
           /\ call' = Some([c EXCEPT !.pc = "commit", !.file_deleted = r.deleted])
    /\ resp' = Idle
    /\ UNCHANGED authvars
    /\ UNCHANGED <<jobs, nextJobId, documents, nextDocId, dirs, nextFileId,
                   sessions>>

\* delete_document, lines 288-291: the row is deleted and committed.  A
\* commit the store fails raises out of the handler.
DeleteDocCommit(commit_ok) ==
    /\ call # None /\ call[1].op = "delete_document" /\ call[1].pc = "commit"
    /\ LET c == call[1]
           req == DocRequest(c.presented, 0, c.document[1].id, None)
       IN  IF commit_ok
           THEN /\ documents' = documents \ {c.document[1]}
                /\ resp' = [Idle EXCEPT !.op = "delete_document", !.code = 200,
                               !.detail = "Document deleted successfully",
                               !.uid = c.user_id, !.body = c.document,
                               !.req = req]
           ELSE /\ resp' = [Idle EXCEPT !.op = "delete_document", !.code = 500,
                               !.detail = "commit failed", !.uid = c.user_id,
                               !.body = c.document, !.req = req]
                /\ UNCHANGED documents
    /\ call' = None
    /\ UNCHANGED authvars
    /\ UNCHANGED <<jobs, nextJobId, nextDocId, files, dirs, nextFileId, sessions>>

\* The document routes, called by two clients that register, log in and
\* create jobs; one document request at a time runs in steps.
DocJobCreates == {jc \in JobApplicationCreates : jc.status = "applied"}

NextDocs ==
    \/ \E body \in ResolveBodies : Register(body)
    \/ \E e \in Emails : Login(e, "secret1")
    \/ Keep
    \/ \E t \in Bearer, jc \in DocJobCreates : CreateJob(t, jc)
    \/ \E t \in Bearer, j \in JobIds, f \in UploadFiles, dt \in DocumentTypes :
          UploadBegin(t, j, f, dt)
    \/ UploadWrite
    \/ UploadCheckSize
    \/ \E ok \in BOOLEAN : UploadCommit(ok)
    \/ \E t \in Bearer, j \in JobIds : GetDocuments(t, j)
    \/ \E t \in Bearer, d \in DocIds : DownloadDocument(t, d)
    \/ \E t \in Bearer, d \in DocIds : DeleteDocBegin(t, d)
    \/ \E raises \in BOOLEAN : DeleteDocUnlink(raises)
    \/ \E ok \in BOOLEAN : DeleteDocCommit(ok)

SpecDocs == Init /\ [][NextDocs]_vars

\* Every route that declares Depends(get_current_active_user), called by one
\* client with the token it holds, a forged copy of it, an expired token or
\* a string that is no token, while its account is deactivated and
\* reactivated.
ProtectedBodies == {body \in ResolveBodies : body.email = "a@x.io"}

ProtectedFiles == {f \in AcceptableFiles : f.size <= MaxUploadSize}

InterviewUpdate ==
    [company_name |-> None, status |-> Some("interview"), notes |-> None]

\* A token of the server with the claims of this one, expired a minute ago.
Stale(token) == jwt_encode([token.payload EXCEPT !.exp = now - 1], SecretKey)

Offered ==
    {Garbage} \cup (IF held = None THEN {}
                    ELSE {held[1], AlteredSignature(held[1]), Stale(held[1])})

NextProtected ==
    \/ \E body \in ProtectedBodies : Register(body)
    \/ Login("a@x.io", "secret1")
    \/ Keep
    \/ \E i \in Ids, b \in BOOLEAN : SetActive(i, b)
    \/ \E t \in Offered : Me(t)
    \/ \E t \in Offered, jc \in DocJobCreates : CreateJob(t, jc)
    \/ \E t \in Offered : GetAllJobs(t, 1, 1, None, None)
    \/ \E t \in Offered : GetStatistics(t)
    \/ \E t \in Offered, j \in JobIds : GetJob(t, j)
    \/ \E t \in Offered, j \in JobIds : UpdateJob(t, j, InterviewUpdate)
    \/ \E t \in Offered, j \in JobIds : DeleteJob(t, j)
    \/ \E t \in Offered, j \in JobIds, f \in ProtectedFiles, dt \in DocumentTypes :
          UploadBegin(t, j, f, dt)
    \/ UploadWrite
    \/ UploadCheckSize
    \/ UploadCommit(TRUE)
    \/ \E t \in Offered, j \in JobIds : GetDocuments(t, j)
    \/ \E t \in Offered, d \in DocIds : DownloadDocument(t, d)
    \/ \E t \in Offered, d \in DocIds : DeleteDocBegin(t, d)
    \/ DeleteDocUnlink(FALSE)
    \/ DeleteDocCommit(TRUE)

SpecProtected == Init /\ [][NextProtected]_vars

\* ------------------------------------------- dependencies.py: get_db
\* SessionLocal(): every call makes a new Session object.
SessionLocal(next) == next

\* Depends(get_db): within one request the dependency runs once, up to its
\* yield, and every later Depends(get_db) of the request gets the same
\* session.  opened counts the sessions the request acquired.
Depends_get_db(r, next) ==
    IF r.opened > 0 THEN r
    ELSE [r EXCEPT !.session = SessionLocal(next), !.opened = @ + 1]

\* The rest of get_db after the yield: `finally: db.close()` runs when the
\* request ends, whether it returned or raised.
\* get_db that closes after the yield without try/finally.
get_db_close_unless_raised(r) ==
    IF r.outcome = "raised" THEN r ELSE [r EXCEPT !.closed = @ + 1]

get_db_close(r) == [r EXCEPT !.closed = @ + 1]

\* A route that declares Depends(get_db) only (register, login), and one that
\* also declares Depends(get_current_active_user), which depends on get_db.
Routes == {"public", "protected"}

SetSlot(i, r, next) ==
    sessions' = [next |-> next, slot |-> [sessions.slot EXCEPT ![i] = r]]

\* A request arrives: its first Depends(get_db) is resolved.
ReqStart(i, route) ==
    /\ sessions.slot[i].pc \in {"idle", "done"}
    /\ sessions.next <= MaxRequests
    /\ LET r == Depends_get_db([NoSession EXCEPT !.route = route], sessions.next)
       IN  SetSlot(i, [r EXCEPT !.pc = IF route = "protected" THEN "resolve"
                                       ELSE "handler"],
                   sessions.next + 1)
    /\ UNCHANGED authvars
    /\ UNCHANGED <<resp, jobs, nextJobId, documents, nextDocId, files, dirs,
                   nextFileId, call>>

\* get_current_user of the request is resolved, with its own Depends(get_db):
\* it returns the user or raises.
ReqResolve(i, passes) ==
    /\ sessions.slot[i].pc = "resolve"
    /\ LET r == Depends_get_db(sessions.slot[i], sessions.next)
       IN  SetSlot(i,
                   IF passes THEN [r EXCEPT !.pc = "handler"]
                   ELSE [r EXCEPT !.pc = "exit", !.outcome = "raised"],
                   IF r.session = sessions.slot[i].session THEN sessions.next
                   ELSE sessions.next + 1)
    /\ UNCHANGED authvars
    /\ UNCHANGED <<resp, jobs, nextJobId, documents, nextDocId, files, dirs,
                   nextFileId, call>>

\* The route handler runs with the session: it returns or raises.
ReqHandle(i, returns) ==
    /\ sessions.slot[i].pc = "handler"
    /\ SetSlot(i, [sessions.slot[i] EXCEPT
                      !.pc = "exit",
                      !.outcome = IF returns THEN "returned" ELSE "raised"],
               sessions.next)
    /\ UNCHANGED authvars
    /\ UNCHANGED <<resp, jobs, nextJobId, documents, nextDocId, files, dirs,
                   nextFileId, call>>

\* The request ends: the generator of get_db is finalised.
ReqExit(i) ==
    /\ sessions.slot[i].pc = "exit"
    /\ SetSlot(i, [get_db_close(sessions.slot[i]) EXCEPT !.pc = "done"],
               sessions.next)
    /\ UNCHANGED authvars
    /\ UNCHANGED <<resp, jobs, nextJobId, documents, nextDocId, files, dirs,
                   nextFileId, call>>

NextSession ==
    \/ \E i \in Slots, route \in Routes : ReqStart(i, route)
    \/ \E i \in Slots, passes \in BOOLEAN : ReqResolve(i, passes)
    \/ \E i \in Slots, returns \in BOOLEAN : ReqHandle(i, returns)
    \/ \E i \in Slots : ReqExit(i)

SpecSession == Init /\ [][NextSession]_vars

\* ------------------------------------ GET /jobs, one query after the other
\* get_all_applications runs two statements on the request's session:
\* get_all_by_user (line 164) and count_by_user (line 173).  database.py
\* creates the engine with no isolation_level, so each statement reads the
\* rows committed when it runs, and a commit of another request can come
\* between the two.
\* The dependency chain and the first statement: the items are read.
ListItems(presented, page, size, status, company) ==
    LET a == Authorize(users, presented, now)
        query == [page |-> page, size |-> size, status |-> status,
                  company |-> company]
        req == [NoReq EXCEPT !.presented = Some(presented),
                             !.query = Some(query)]
    IN
    /\ call = None
    /\ IF a.code # 200
       THEN /\ resp' = [Refused("get_all_jobs", a, presented) EXCEPT !.req = req]
            /\ UNCHANGED call
       ELSE \E items \in JobApplicationRepository_get_all_by_user(
                             jobs, a.user[1].id, (page - 1) * size, size,
                             status, company) :
               /\ call' = Some([NewCall("get_all_jobs", "count", presented,
                                        a.user[1].id)
                                  EXCEPT !.items = items, !.query = Some(query)])
               /\ resp' = [Idle EXCEPT !.op = "get_all_jobs",
                                       !.uid = a.user[1].id, !.req = req]
    /\ UNCHANGED authvars
    /\ UNCHANGED <<jobs, nextJobId, documents, nextDocId, files, dirs,
                   nextFileId, sessions>>

\* The second statement and the response: the rows are counted as they are
\* now, and the items read before are returned with that total.
ListCount ==
    /\ call # None /\ call[1].op = "get_all_jobs" /\ call[1].pc = "count"
    /\ LET c == call[1]
           q == c.query[1]
           total == JobApplicationRepository_count_by_user(
                        jobs, c.user_id, q.status, q.company)
       IN  resp' = [Idle EXCEPT
                       !.op = "get_all_jobs", !.code = 200, !.uid = c.user_id,
                       !.body = Some(JobApplicationListResponse(
                                         c.items, total, q.page, q.size)),
                       !.req = [NoReq EXCEPT !.presented = Some(c.presented),
                                             !.query = c.query]]
    /\ call' = None
    /\ UNCHANGED authvars
    /\ UNCHANGED <<jobs, nextJobId, documents, nextDocId, files, dirs,
                   nextFileId, sessions>>

\* The query parameters of the runs: page (ge=1), size (ge=1, le=100), status
\* and company.
Pages == 1..(MaxJobs + 1)
Sizes == 1..MaxJobs
\* <<status, company>>: no filter, a status, a part of a company name in
\* other letter case, and a status with the empty company text.
PageFilters == {<<None, None>>,
                <<Some("applied"), None>>,
                <<None, Some(<<"a", "C">>)>>,
                <<Some("interview"), Some(<< >>)>>}
PageJobCreates == {[company_name |-> Acme, status |-> "applied", notes |-> Null],
                   [company_name |-> Apex, status |-> "interview", notes |-> Null]}
\* Ticks of the clock in a run of the list route.
PageTicks == 1

\* The list route answered on one state of the table, called by two clients
\* that create applications at different times.
NextPage ==
    \/ \E body \in ResolveBodies : Register(body)
    \/ \E e \in Emails : Login(e, "secret1")
    \/ Keep
    \/ (now < PageTicks * TickMinutes /\ Tick)
    \/ \E t \in Bearer, jc \in PageJobCreates : CreateJob(t, jc)
    \/ \E t \in Bearer, page \in Pages, size \in Sizes, f \in PageFilters :
          GetAllJobs(t, page, size, f[1], f[2])

SpecPage == Init /\ [][NextPage]_vars

\* The list route taken statement by statement while the same client creates
\* and deletes applications.
NextList ==
    \/ \E body \in ProtectedBodies : Register(body)
    \/ \E e \in {"a@x.io"} : Login(e, "secret1")
    \/ Keep
    \/ \E t \in Bearer, jc \in JobApplicationCreates : CreateJob(t, jc)
    \/ \E t \in Bearer, j \in JobIds : DeleteJob(t, j)
    \/ \E t \in Bearer, size \in Sizes : ListItems(t, 1, size, None, None)
    \/ ListCount

SpecList == Init /\ [][NextList]_vars

\* The statistics route, called by two clients whose applications take every
\* status.
StatsJobCreates ==
    [company_name : {Acme}, status : ApplicationStatus, notes : {Null}]

NextStats ==
    \/ \E body \in ResolveBodies : Register(body)
    \/ \E e \in Emails : Login(e, "secret1")
    \/ Keep
    \/ \E t \in Bearer, jc \in StatsJobCreates : CreateJob(t, jc)
    \/ \E t \in Bearer, j \in JobIds : DeleteJob(t, j)
    \/ \E t \in Bearer : GetStatistics(t)

SpecStats == Init /\ [][NextStats]_vars

\* ------------------------------------------- the stored hashed_password
\* What the hashed_password column (a String) can hold: the hashes
\* get_password_hash makes, and strings that are no bcrypt hash: the empty
\* string and a password stored as plain text.
Malformed == {[scheme |-> "", secret |-> ""],
              [scheme |-> "plain", secret |-> "secret1"]}

StoredStrings == {get_password_hash(p) : p \in Passwords} \cup Malformed

\* The column is written on the store, past the repository (a migration, an
\* import, an administrator).
WriteHash(user_id, hashed_password) ==
    /\ \E u \in users : u.id = user_id /\ u.hashed_password # hashed_password
    /\ users' = {IF u.id = user_id
                 THEN [u EXCEPT !.hashed_password = hashed_password] ELSE u :
                    u \in users}
    /\ resp' = Idle
    /\ UNCHANGED <<nextId, now, held, minted, registered, inflight>>
    /\ UNCHANGED appvars

\* verify_password, called on its own.
VerifyPassword(plain_password, hashed_password) ==
    LET v == verify_password(plain_password, hashed_password) IN
    /\ resp' = [Idle EXCEPT !.op = "verify_password",
                            !.code = IF v.raised # "" THEN 500 ELSE 200,
                            !.detail = v.raised,
                            !.body = Some([value |-> v.value,
                                           hashed_password |-> hashed_password]),
                            !.req = [NoReq EXCEPT !.password = plain_password]]
    /\ UNCHANGED <<users, nextId, now, held, minted, registered, inflight>>
    /\ UNCHANGED appvars

\* Login against a users table whose hash column holds any stored string.
NextHash ==
    \/ \E body \in LoginBodies : Register(body)
    \/ \E e \in Emails, p \in Passwords : Login(e, p)
    \/ \E i \in Ids, h \in StoredStrings : WriteHash(i, h)
    \/ \E p \in Passwords, h \in StoredStrings : VerifyPassword(p, h)
    \/ \E i \in Ids, b \in BOOLEAN : SetActive(i, b)

SpecHash == Init /\ [][NextHash]_vars

\* A client that keeps one token while its account's password and email are
\* changed, it logs in again, and time passes.
NextRevoke ==
    \/ \E body \in ResolveBodies : Register(body)
    \/ \E e \in Emails, p \in Passwords : Login(e, p)
    \/ Keep
    \/ \E t \in Bearer : Me(t)
    \/ \E i \in Ids, upd \in CredentialUpdates : UpdateUser(i, upd)
    \/ \E i \in Ids, b \in BOOLEAN : SetActive(i, b)
    \/ Tick

SpecRevoke == Init /\ [][NextRevoke]_vars

\* Register requests alone, each running in its three steps.
NextRace ==
    \/ \E i \in Slots, body \in ConcBodies : RegCheckEmail(i, body)
    \/ \E i \in Slots : RegCheckUsername(i)
    \/ \E i \in Slots : RegCreate(i)

SpecRace == Init /\ [][NextRace]_vars

\* ===================================================================== C1
\* The row of a registration that is still in the table and active.
LiveRow(r) == {u \in users : u.id = r.id /\ u.is_active}

\* The outcome C1 expects of a login step for password p against the
\* registered password.
LoginOutcome(p, registered_password) ==
    IF p = registered_password
    THEN resp'.code = 200 /\ resp'.token # None
    ELSE resp'.code = 401 /\ resp'.token = None

\* C1 as stated: once register(email, username, password) has succeeded and
\* that user is still active, every login(email, password) succeeds with a
\* token and every login(email, p) with another p fails with 401 and no token.
C1_Original ==
    [][\A e \in Emails, p \in Passwords :
          Login(e, p) =>
              \A r \in registered :
                  (r.email = e /\ LiveRow(r) # {}) => LoginOutcome(p, r.password)]_vars

\* C1 (amended): the same, for a user whose row still carries the registered
\* email and the hash of the registered password, that is, as long as no
\* UserRepository.update has changed the email or the password.
C1_LoginAfterRegister ==
    [][\A e \in Emails, p \in Passwords :
          Login(e, p) =>
              \A r \in registered :
                  (/\ r.email = e
                   /\ \E u \in LiveRow(r) :
                        /\ u.email = r.email
                        /\ u.hashed_password = get_password_hash(r.password))
                  => LoginOutcome(p, r.password)]_vars

\* A registered, active user has logged in and holds a token for the email;
\* and the other password was refused before.
C1_Witness ==
    /\ resp.op = "login" /\ resp.code = 200 /\ resp.token # None
    /\ resp.token[1].payload.sub = resp.req.email
    /\ \E r \in registered :
          /\ r.email = resp.req.email /\ r.password = resp.req.password
          /\ LiveRow(r) # {}

\* ===================================================================== C7
\* The one response of a failed login, apart from the echo of the request.
LoginFailure(e, p) ==
    [Idle EXCEPT !.op = "login", !.code = 401,
                 !.detail = "Incorrect email or password",
                 !.req = [NoReq EXCEPT !.email = e, !.password = p]]

\* C7: login answers with the same 401 "Incorrect email or password" when the
\* email matches no user, when the password does not verify, and when the
\* credentials match but the user is inactive.
C7_GenericLoginFailure ==
    [][\A e \in Emails, p \in Passwords :
          Login(e, p) =>
              LET row == {u \in users : u.email = e} IN
              (\/ row = {}
               \/ \E u \in row : u.hashed_password # get_password_hash(p)
               \/ \E u \in row : ~u.is_active)
              => resp' = LoginFailure(e, p)]_vars

\* A login with the right password of an inactive user was refused.
C7_Witness ==
    /\ resp.op = "login" /\ resp.code = 401
    /\ \E u \in users :
          /\ u.email = resp.req.email
          /\ u.hashed_password = get_password_hash(resp.req.password)
          /\ ~u.is_active

\* ===================================================================== C5
\* C5: run without interleaving, register with a stored email ends 409, and
\* with a new email but a stored username ends 409; the users table is left
\* as it was.
C5_DuplicateConflict ==
    [][\A body \in Bodies :
          Register(body) =>
              /\ (\E u \in users : u.email = body.email)
                 => /\ resp'.code = 409
                    /\ resp'.detail = "Email already registered"
                    /\ users' = users
              /\ (/\ ~\E u \in users : u.email = body.email
                  /\ \E u \in users : u.username = body.username)
                 => /\ resp'.code = 409
                    /\ resp'.detail = "Username already taken"
                    /\ users' = users]_vars

\* A register with a new email and a stored username ended 409.
C5_Witness ==
    /\ resp.op = "register" /\ resp.code = 409
    /\ ~\E u \in users : u.email = resp.req.email
    /\ \E u \in users : u.username = resp.req.username

\* ===================================================================== C9
\* C9: a successful register inserts exactly one row, active and not
\* superuser whatever the body carries, and no run of register and login
\* calls leaves a superuser in the table.
C9_RegisterDefaults ==
    /\ [](\A u \in users : ~u.is_superuser)
    /\ [][\A body \in Bodies :
            (Register(body) /\ resp'.code = 201) =>
                \E row \in users' :
                    /\ row \notin users
                    /\ users' = users \cup {row}
                    /\ row.email = body.email /\ row.username = body.username
                    /\ row.is_active /\ ~row.is_superuser]_vars

\* A register whose body asked for is_superuser and not is_active succeeded,
\* and its row is active and not superuser.
C9_Witness ==
    /\ resp.op = "register" /\ resp.code = 201
    /\ resp.req.is_superuser /\ ~resp.req.is_active
    /\ \E u \in users : u.id = resp.uid /\ u.is_active /\ ~u.is_superuser

\* ===================================================================== C2
\* What the claims name, stated on the token and the table.
TokenVerifies(t) ==
    t.wellformed /\ t.sig.key = SecretKey /\ t.sig.over = t.payload
NotExpired(t) == t.payload.exp >= now
Holder(t) == {u \in users : u.email = t.payload.sub}
Resolves(t) ==
    /\ TokenVerifies(t) /\ NotExpired(t)
    /\ t.payload.sub # ""
    /\ \E u \in Holder(t) : u.is_active

Altered(t) == AlteredPayload(t) \cup {AlteredSignature(t)}

\* The part of C2 that holds: resolution succeeds exactly when the token
\* verifies, is not expired, has a subject, and an active user has that email;
\* it then returns that user, and otherwise ends 401; an altered token ends 401.
ResolutionRule(t) ==
    /\ IF Resolves(t)
       THEN resp'.code = 200 /\ \E u \in Holder(t) : resp'.uid = u.id
       ELSE resp'.code = 401 /\ resp'.uid = 0
    /\ (held # None /\ t \in Altered(held[1])) => resp'.code = 401

C3_DeactivatedRefused ==
    [][\A t \in Presentable :
          (/\ Me(t)
           /\ held # None /\ t = held[1] /\ NotExpired(t)
           /\ \E u \in users : /\ u.id = t.payload.user_id
                               /\ u.email = t.payload.sub
                               /\ ~u.is_active)
          => resp'.code = 401 /\ resp'.uid = 0]_vars

\* An unexpired token of a login was refused after its user was deactivated.
C3_Witness ==
    /\ resp.op = "me" /\ resp.code = 401
    /\ held # None /\ resp.req.presented = held /\ NotExpired(held[1])
    /\ \E u \in users : /\ u.id = held[1].payload.user_id
                        /\ u.email = held[1].payload.sub
                        /\ ~u.is_active

\* ==================================================================== C10
\* C10: with a token that resolves, get_current_superuser passes exactly when
\* the stored is_superuser of the user is true at the time of the request,
\* and ends 403 when it is false.
C10_AdminFlagIsFresh ==
    [][\A t \in Presentable :
          (AdminRoute(t) /\ Resolves(t)) =>
              \E u \in Holder(t) :
                  IF u.is_superuser
                  THEN resp'.code = 200 /\ resp'.uid = u.id
                  ELSE resp'.code = 403 /\ resp'.uid = 0]_vars

\* A user who was superuser when the token was issued, and is not any more,
\* was refused with 403 on presenting the unexpired token.
C10_Witness ==
    /\ resp.op = "admin" /\ resp.code = 403
    /\ held # None /\ resp.req.presented = held /\ Resolves(held[1])
    /\ minted # None /\ minted[1].admin
    /\ \E u \in Holder(held[1]) :
          u.id = held[1].payload.user_id /\ ~u.is_superuser

\* ===================================================================== C4
\* The expiry C4 expects of the held token: issue time + ttl, the configured
\* default standing in when no ttl was given.
ExpectedExpiry ==
    minted[1].at + (IF minted[1].ttl = None THEN AccessTokenExpireMinutes
                    ELSE minted[1].ttl[1])

\* C4 as stated: decode of a token made by create_access_token(claims, ttl)
\* at time t returns the claims unchanged at every time before t + ttl and
\* None at every time after t + ttl.
C4_Original ==
    [][\A t \in Presentable :
          (Decode(t) /\ held # None /\ t = held[1]) =>
              /\ now < ExpectedExpiry =>
                    /\ resp'.payload # None
                    /\ resp'.payload[1].sub = minted[1].data.sub
                    /\ resp'.payload[1].user_id = minted[1].data.user_id
                    /\ resp'.payload[1].email = minted[1].data.email
              /\ now > ExpectedExpiry => resp'.payload = None]_vars

\* ===================================================================== C8
\* C8: decode answers a token that does not parse, one whose signature does
\* not verify and one that is signed but expired with the same None.
C8_OneInvalidOutcome ==
    [][\A t \in Presentable :
          (Decode(t) /\ (~TokenVerifies(t) \/ ~NotExpired(t))) =>
              resp' = [Idle EXCEPT !.op = "decode",
                                   !.req = [NoReq EXCEPT !.presented = Some(t)]]]_vars

\* The signed token of the caller was decoded after its expiry, to None.
C8_Witness ==
    /\ resp.op = "decode" /\ resp.payload = None
    /\ held # None /\ resp.req.presented = held
    /\ TokenVerifies(held[1]) /\ ~NotExpired(held[1])

\* ===================================================================== C6
\* C6: in every reachable state of the users table no two rows share an email
\* and no two rows share a username.
C6_UniqueEmailAndUsername ==
    \A u1, u2 \in users :
        u1 # u2 => (u1.email # u2.email /\ u1.username # u2.username)

\* Two rows are stored and the store has just refused a register or an update
\* that would have duplicated an email or a username.
C6_Witness ==
    /\ Cardinality(users) = 2
    /\ resp.op \in {"register", "update"}
    /\ resp.code = 500 /\ resp.detail = "IntegrityError"

\* ==================================================================== C11
\* The one response get_current_user gives a request it refuses on /auth/me.
MeRefused(t) ==
    [Idle EXCEPT !.op = "me", !.code = 401,
                 !.detail = "Could not validate credentials",
                 !.req = [NoReq EXCEPT !.presented = Some(t)]]

\* C11: through the chain get_current_user -> get_current_active_user, a
\* valid token of an inactive user always ends in the 401 of get_current_user,
\* and no request through the chain ends in the 400 "Inactive user".
C11_InactiveIs401Never400 ==
    [][\A t \in Presentable :
          Me(t) =>
              /\ resp'.code # 400 /\ resp'.detail # "Inactive user"
              /\ (/\ TokenVerifies(t) /\ NotExpired(t) /\ t.payload.sub # ""
                  /\ \E u \in Holder(t) : ~u.is_active)
                 => resp' = MeRefused(t)]_vars

\* A request with a valid token whose user is inactive ended in the 401 of
\* get_current_user.
C11_Witness ==
    /\ resp.op = "me" /\ resp.req.presented # None
    /\ resp = MeRefused(resp.req.presented[1])
    /\ TokenVerifies(resp.req.presented[1]) /\ NotExpired(resp.req.presented[1])
    /\ \E u \in Holder(resp.req.presented[1]) : ~u.is_active

\* ==================================================================== C13
\* The one response of a job route for a job id the caller does not own.
JobMiss(op, t, job_id, caller) ==
    [Idle EXCEPT !.op = op, !.code = 404, !.detail = JobNotFound,
                 !.uid = caller,
                 !.req = [NoReq EXCEPT !.presented = Some(t), !.job_id = job_id]]

\* The caller has no job with this id: there is none, or it is another user's.
NotOwned(job_id, caller) ==
    ~\E j \in jobs : j.id = job_id /\ j.user_id = caller

\* C13: get, update and delete of a job id that does not exist or belongs to
\* another user end 404, never 403, with one response for both cases, and
\* leave every job row (and document row) unchanged.
C13_ForeignJobIsNotFound ==
    [][\A t \in Bearer, job_id \in JobIds :
          \A u \in Holder(t) :
              (Resolves(t) /\ NotOwned(job_id, u.id)) =>
                  /\ GetJob(t, job_id) =>
                        resp' = JobMiss("get_job", t, job_id, u.id) /\ jobs' = jobs
                  /\ (\E ju \in JobApplicationUpdates : UpdateJob(t, job_id, ju)) =>
                        resp' = JobMiss("update_job", t, job_id, u.id) /\ jobs' = jobs
                  /\ DeleteJob(t, job_id) =>
                        /\ resp' = JobMiss("delete_job", t, job_id, u.id)
                        /\ jobs' = jobs /\ documents' = documents]_vars

\* A job route answered 404 for the id of a job that another user owns.
C13_Witness ==
    /\ resp.op \in {"get_job", "update_job", "delete_job"}
    /\ resp.code = 404
    /\ \E j \in jobs : j.id = resp.req.job_id /\ j.user_id # resp.uid

\* ==================================================================== C14
\* The document exists and its job application is not one of the caller's.
ForeignDocument(document_id, caller) ==
    \E d \in documents :
        /\ d.id = document_id
        /\ NotOwned(d.job_application_id, caller)

\* The one response of a document route for a document id that does not exist.
DocumentMiss(op, t, document_id, caller) ==
    [Idle EXCEPT !.op = op, !.code = 404, !.detail = DocumentNotFound,
                 !.uid = caller,
                 !.req = DocRequest(t, 0, document_id, None)]

\* C14 as stated: get_document and delete_document with the id of a document
\* whose job belongs to another user end 404 with the response of a missing
\* document, and leave the row and its file unchanged.
C14_Original ==
    [][\A t \in Bearer, document_id \in DocIds :
          \A u \in Holder(t) :
              (Resolves(t) /\ ForeignDocument(document_id, u.id)) =>
                  /\ DownloadDocument(t, document_id) =>
                        /\ resp' = DocumentMiss("download", t, document_id, u.id)
                        /\ documents' = documents /\ files' = files
                  /\ DeleteDocBegin(t, document_id) =>
                        /\ resp' = DocumentMiss("delete_document", t, document_id, u.id)
                        /\ call' = None
                        /\ documents' = documents /\ files' = files]_vars

\* ==================================================================== C15
\* C15 as stated: in no reachable state, the states in the middle of
\* save_file included, does the upload directory hold a file larger than
\* max_upload_size.
C15_Original ==
    \A f \in files : f.size <= MaxUploadSize

\* ==================================================================== C16
\* What C16 requires of an accepted upload, read off the file.
NameAllowed(file) ==
    /\ file.filename # << >>
    /\ Lower(Suffix(file.filename)) \in ALLOWED_EXTENSIONS

TypeAllowed(file) == file.content_type \in ALLOWED_MIME_TYPES

\* C16: an upload for a job of the caller goes on to save_file's mkdir and
\* write only when the name is not empty, its lower-cased extension is
\* allowed and its content type is allowed; otherwise the request ends 400
\* with no directory made, no byte written and no document row inserted.
C16_ValidatedBeforeAnyWrite ==
    [][/\ \A t \in Bearer, job_id \in JobIds, file \in UploadFiles,
             dt \in DocumentTypes :
             \A u \in Holder(t) :
                 (/\ UploadBegin(t, job_id, file, dt)
                  /\ Resolves(t) /\ ~NotOwned(job_id, u.id)) =>
                     IF NameAllowed(file) /\ TypeAllowed(file)
                     THEN call' # None /\ call'[1].file = Some(file)
                     ELSE /\ resp'.op = "upload" /\ resp'.code = 400
                          /\ call' = None
                          /\ dirs' = dirs /\ files' = files
                          /\ documents' = documents
       /\ (UploadWrite \/ UploadCheckSize \/ \E ok \in BOOLEAN : UploadCommit(ok)) =>
             NameAllowed(call[1].file[1]) /\ TypeAllowed(call[1].file[1])]_vars

\* An upload with an allowed extension and a foreign content type ended 400
\* with nothing made under the upload directory.
C16_Witness ==
    /\ resp.op = "upload" /\ resp.code = 400
    /\ resp.detail = "Content type not allowed"
    /\ resp.req.file # None /\ NameAllowed(resp.req.file[1])
    /\ call = None /\ dirs = {} /\ files = {} /\ documents = {}

\* ==================================================================== C17
\* The file at this path and a document row that points to it both exist,
\* or neither does, in the next state.
BothOrNeither(filepath) ==
    Exists(files', filepath) <=> \E d \in documents' : d.filepath = filepath

\* C17 as stated: when upload_document ends, with success or with any
\* failure, the file it stored and a row pointing to it both exist or
\* neither exists.
C17_Original ==
    [][(\/ UploadCheckSize /\ call' = None
        \/ \E ok \in BOOLEAN : UploadCommit(ok))
       => BothOrNeither(call[1].path[1])]_vars

\* ==================================================================== C18
\* C18 as stated: when delete_document ends, the file and the row are both
\* gone or both still present.
C18_Original ==
    [][(\E ok \in BOOLEAN : DeleteDocCommit(ok)) =>
          (Exists(files', call[1].document[1].filepath)
              <=> call[1].document[1] \in documents')]_vars

\* ==================================================================== C19
\* C19 as stated: for every supplied expires_delta, a zero duration
\* included, the exp of the issued token is issue time + expires_delta, and
\* the configured default is used only when none is supplied.
C19_Original ==
    [][\A data \in TokenClaims, ttl \in Opt(Ttls) :
          Issue(data, ttl) =>
              held'[1].payload.exp =
                  now + (IF ttl = None THEN AccessTokenExpireMinutes ELSE ttl[1])]_vars

\* ==================================================================== C20
\* C20: a request acquires one session, the session is open while the
\* request runs and closed exactly once when it has ended, whether the
\* handler returned or the handler or a dependency raised; and no two
\* requests have the same session.
C20_SessionPerRequest ==
    /\ \A i \in Slots :
          LET r == sessions.slot[i] IN
          /\ r.pc = "idle" => r.opened = 0 /\ r.closed = 0
          /\ r.pc \in {"resolve", "handler", "exit"} => r.opened = 1 /\ r.closed = 0
          /\ r.pc = "done" => r.opened = 1 /\ r.closed = 1
    /\ \A i, j \in Slots :
          (i # j /\ sessions.slot[i].pc # "idle" /\ sessions.slot[j].pc # "idle")
          => sessions.slot[i].session # sessions.slot[j].session

\* A request whose dependency raised has ended with its session closed once,
\* while another request runs with a session of its own.
C20_Witness ==
    \E i, j \in Slots :
        /\ sessions.slot[i].pc = "done" /\ sessions.slot[i].route = "protected"
        /\ sessions.slot[i].outcome = "raised" /\ sessions.slot[i].closed = 1
        /\ sessions.slot[j].pc = "handler"
        /\ sessions.slot[j].session # sessions.slot[i].session

\* ==================================================================== C12
ProtectedOps ==
    {"me", "create_job", "get_all_jobs", "get_statistics", "get_job",
     "update_job", "delete_job", "upload", "get_documents", "download",
     "delete_document"}

\* The step is a later step of the document request in progress.
LaterStep == call # None /\ call' # call

\* The step runs the dependency chain of a request to a protected route:
\* the response names the route and the token the request presented.
RouteStep ==
    /\ resp'.op \in ProtectedOps /\ resp'.req.presented # None
    /\ ~LaterStep

\* The identity resolution of that request ends Authorized.
Authorized == Resolves(resp'.req.presented[1])

\* C12: a request to a protected route whose identity resolution does not
\* end Authorized gets the 401, starts no service operation and leaves the
\* user, job, document and file stores as they were; and the job, document
\* and file stores change only in a step of a request whose resolution
\* ended Authorized.
C12_AuthorizedBeforeService ==
    [][/\ (RouteStep /\ ~Authorized) =>
             /\ resp'.code = 401
             /\ resp'.detail = "Could not validate credentials"
             /\ call' = call
             /\ UNCHANGED <<users, jobs, documents, files, dirs>>
       /\ (jobs' # jobs \/ documents' # documents \/ files' # files
             \/ dirs' # dirs \/ call' # call)
             => \/ RouteStep /\ Authorized
                \/ LaterStep]_vars

\* With jobs and documents stored, a request that presented a forged copy of
\* the held token to a route that writes was refused with 401.
C12_Witness ==
    /\ resp.code = 401
    /\ resp.op \in {"create_job", "update_job", "delete_job", "upload",
                    "delete_document"}
    /\ held # None /\ resp.req.presented = Some(AlteredSignature(held[1]))
    /\ jobs # {} /\ documents # {} /\ files # {}

\* ==================================================================== C21
\* C21 as stated: for a stored string that is no hash the hasher recognises,
\* verify_password returns false without raising, and a login against a row
\* that holds such a string ends with the generic 401.
C21_Original ==
    [][/\ \A p \in Passwords, h \in Malformed :
             VerifyPassword(p, h) =>
                 /\ resp'.code = 200 /\ resp'.detail = ""
                 /\ resp'.body[1].value = FALSE
       /\ \A e \in Emails, p \in Passwords :
             (Login(e, p) /\ \E u \in users : /\ u.email = e
                                              /\ u.hashed_password \in Malformed)
             => resp' = LoginFailure(e, p)]_vars

\* ==================================================================== C22
\* C22: at every time up to its exp, the token of a login resolves as long
\* as an active user has the token's email: a password change, a newer
\* token issued by a later login and the passing of time short of exp do not
\* revoke it.
C22_UsableUntilExpiry ==
    [][\A t \in Bearer :
          (/\ Me(t)
           /\ now <= t.payload.exp
           /\ \E u \in Holder(t) : u.is_active)
          => /\ resp'.code = 200
             /\ \E u \in Holder(t) : resp'.uid = u.id]_vars

\* The held token resolved at a later time than it was issued at, after the
\* password of its user had been changed.
C22_Witness ==
    /\ resp.op = "me" /\ resp.code = 200
    /\ held # None /\ resp.req.presented = held
    /\ minted # None /\ now > minted[1].at
    /\ \E u \in users, r \in registered :
          /\ u.id = resp.uid /\ r.id = u.id
          /\ u.hashed_password # get_password_hash(r.password)

\* ==================================================================== C23
\* C23 as stated: when the insert of a register request meets a row with its
\* email or its username, stored by another register since its two checks
\* passed, no row is added and the request ends with 409 as a sequential
\* duplicate registration does.
C23_Original ==
    [][\A i \in Slots :
          (/\ RegCreate(i)
           /\ \E u \in users : \/ u.email = inflight[i][1].uc.email
                               \/ u.username = inflight[i][1].uc.username)
          => /\ users' = users
             /\ resp'.code = 409
             /\ resp'.detail \in {"Email already registered",
                                  "Username already taken"}]_vars

\* ==================================================================== C24
\* C24 as stated: whatever registrations, email changes and deletions have
\* happened since the login, a resolution with the held token fails or
\* returns the user whose id is the user_id claim of the token.
C24_Original ==
    [][\A t \in Bearer :
          (Me(t) /\ resp'.code = 200) => resp'.uid = t.payload.user_id]_vars

C26_Original ==
    call = None =>
        /\ \A f \in files :
              Cardinality({d \in documents : d.filepath = f.path}) = 1
        /\ \A d \in documents :
              \E j \in jobs : j.id = d.job_application_id

\* ==================================================================== C30
\* The row new is the row old with exactly the set fields of job_update
\* changed to the given values.  updated_at, the row's own record of the
\* time of its last UPDATE, is not counted among the fields.
OnlySetFields(old, new, job_update) ==
    /\ new.id = old.id /\ new.user_id = old.user_id
    /\ new.created_at = old.created_at
    /\ new.company_name = IF job_update.company_name = None THEN old.company_name
                          ELSE job_update.company_name[1]
    /\ new.status = IF job_update.status = None THEN old.status
                    ELSE job_update.status[1]
    /\ new.notes = IF job_update.notes = None THEN old.notes
                   ELSE job_update.notes[1]

NothingSet(job_update) ==
    /\ job_update.company_name = None /\ job_update.status = None
    /\ job_update.notes = None

\* An update of a job of the caller does what the claim says.
UpdatesAsClaimed(t, job_id, job_update, caller) ==
    (/\ UpdateJob(t, job_id, job_update)
     /\ Resolves(t)
     /\ ~NotOwned(job_id, caller))
    => /\ \E old \in jobs, new \in jobs' :
             /\ old.id = job_id
             /\ jobs' = (jobs \ {old}) \cup {new}
             /\ OnlySetFields(old, new, job_update)
       /\ NothingSet(job_update) => jobs' = jobs

\* C30 as stated: update_application on a job of the caller changes exactly
\* the fields set in the request to the given values and leaves the other
\* fields of the row and every other row as they were; with no field set it
\* changes nothing.
C30_Original ==
    [][\A t \in Bearer, job_id \in JobIds, ju \in JobApplicationUpdates :
          \A u \in Holder(t) : UpdatesAsClaimed(t, job_id, ju, u.id)]_vars


\* C27: get_all_applications with page >= 1 and size >= 1 answers with
\* total = the number of the caller's applications that pass the filters,
\* pages = ceil(total / size), and items = the applications at positions
\* (page-1)*size .. page*size-1 of a newest-first order of them: at most size
\* entries, none when page > pages, and never an application of another user.
PassesFilters(j, q) ==
    /\ q.status # None => j.status = q.status[1]
    /\ (q.company # None /\ q.company[1] # << >>)
          => ILike(j.company_name, q.company[1])

IsNewestFirst(order, S) ==
    /\ \A x \in S : \E i \in 1..Cardinality(S) : order[i] = x
    /\ \A i, k \in 1..Cardinality(S) :
          i < k => order[i].created_at >= order[k].created_at

ListingAsClaimed(r, q, caller) ==
    LET mine == {j \in jobs : j.user_id = caller /\ PassesFilters(j, q)}
        first == (q.page - 1) * q.size
        last == q.page * q.size - 1
        positions == {p \in first..last : p < Cardinality(mine)}
    IN  /\ r.total = Cardinality(mine)
        /\ r.pages * q.size >= r.total
        /\ (r.pages - 1) * q.size < r.total
        /\ \E order \in [1..Cardinality(mine) -> mine] :
              /\ IsNewestFirst(order, mine)
              /\ Len(r.items) = Cardinality(positions)
              /\ \A i \in 1..Len(r.items) : r.items[i] = order[first + i]
        /\ Len(r.items) <= q.size
        /\ q.page > r.pages => r.items = << >>
        /\ \A i \in 1..Len(r.items) : r.items[i].user_id = caller

C27_Listing ==
    (resp.op = "get_all_jobs" /\ resp.code = 200)
        => ListingAsClaimed(resp.body[1], resp.req.query[1], resp.uid)

\* The second page of size 1 of a filtered list of two applications.
C27_Witness ==
    /\ resp.op = "get_all_jobs" /\ resp.code = 200
    /\ resp.req.query[1].page = 2 /\ resp.req.query[1].size = 1
    /\ resp.req.query[1].status # None
    /\ resp.body[1].total = 2
    /\ Len(resp.body[1].items) = 1
    /\ \E j \in jobs : j.created_at > resp.body[1].items[1].created_at

\* C28: every response of the list route has len(items) <= total and
\* len(items) <= size, also when a request of the same user creates or
\* deletes an application between the items query and the count query.
C28_Original ==
    (resp.op = "get_all_jobs" /\ resp.code = 200)
        => /\ Len(resp.body[1].items) <= resp.body[1].total
           /\ Len(resp.body[1].items) <= resp.body[1].size

\* C29: get_statistics answers with a count for each of the five statuses,
\* each the number of the caller's applications with that status (0 when
\* there is none); total_applications is the sum of the five counts and the
\* number of the caller's rows; rows of other users are not counted.
CountOf(caller, status) ==
    Cardinality({j \in jobs : j.user_id = caller /\ j.status = status})

C29_Statistics ==
    (resp.op = "get_statistics" /\ resp.code = 200)
        => LET b == resp.body[1] IN
           /\ b.applied = CountOf(resp.uid, "applied")
           /\ b.interview = CountOf(resp.uid, "interview")
           /\ b.offer = CountOf(resp.uid, "offer")
           /\ b.rejected = CountOf(resp.uid, "rejected")
           /\ b.withdrawn = CountOf(resp.uid, "withdrawn")
           /\ b.total_applications
                 = b.applied + b.interview + b.offer + b.rejected + b.withdrawn
           /\ b.total_applications
                 = Cardinality({j \in jobs : j.user_id = resp.uid})

\* Statistics of a user with one application, asked while another user has
\* an application of another status.
C29_Witness ==
    /\ resp.op = "get_statistics" /\ resp.code = 200
    /\ resp.body[1].total_applications = 1
    /\ \E j \in jobs :
          /\ j.user_id # resp.uid
          /\ \A k \in jobs : k.user_id = resp.uid => k.status # j.status
====
